---- MODULE Spec2Model ----
(***************************************************************************)
(* Market-data adapter of server32 (src/perf_real_main.py,                 *)
(* RealDataSimulator): the symbol table, the candle cache and its          *)
(* cursors, the prefetch queue, the tick feed worker, the maintenance      *)
(* loop, the universe reload path and the consumer's read methods.         *)
(*                                                                         *)
(* Granularity: one action per `with self._lock:` section and one per      *)
(* statement (or run of statements on locals) outside a lock section, so   *)
(* that every interleaving the threads of the program can produce at the   *)
(* level of shared-state accesses is a behaviour of the model.             *)
(***************************************************************************)
EXTENDS Integers, Sequences, FiniteSets, TLC

\* ------------------------------------------------------------------ bounds

\* RealDataSimulator(n): the universe is cut to max(1, n) codes.
n == 2
\* Longest candle series the candle endpoint answers with.
MaxBars == 2
\* Most stress ticks the maintenance loop starts.
MaxCycles == 2

\* --------------------------------------------------------------- constants

\* _process_candle_fetch_once / generate_candle: the replay window.
ReplayWindow == 120
\* _bootstrap_universe: number of placeholder rows.
NumPlaceholders == 5
\* PERF_STRESS_BATCH default.
StressBatchDefault == 20

\* ----------------------------------------------------------------- helpers

Max(a, b) == IF a >= b THEN a ELSE b
Min(a, b) == IF a <= b THEN a ELSE b

Range(s) == {s[i] : i \in DOMAIN s}

\* dict(): a mapping with no keys.
EmptyMap == [k \in {} |-> 0]

\* d[k] = v
Put(d, k, v) == [x \in (DOMAIN d) \cup {k} |-> IF x = k THEN v ELSE d[x]]

\* d.pop(k, None)
Pop(d, k) == [x \in (DOMAIN d) \ {k} |-> d[x]]

\* d.get(k, default)
Get(d, k, default) == IF k \in DOMAIN d THEN d[k] ELSE default

\* s[:k]
Take(s, k) == SubSeq(s, 1, Min(Len(s), Max(k, 0)))

\* list(dict.fromkeys(codes)): first occurrences, in order.
RECURSIVE Dedup(_)
Dedup(s) ==
    IF s = <<>> THEN <<>>
    ELSE LET front == Dedup(SubSeq(s, 1, Len(s) - 1))
             last  == s[Len(s)]
         IN IF last \in Range(front) THEN front ELSE Append(front, last)

\* Number of occurrences of x in s.
Count(s, x) == Cardinality({i \in DOMAIN s : s[i] = x})

\* ------------------------------------------------------------------- codes

\* Codes the broker can answer a condition search with.
Codes == {"A", "B", "C"}

\* A blank entry of a Codes payload (dropped by str(c).strip()).
Blank == " "

\* _bootstrap_universe: f"00000{i}" for i in range(5).
PlaceholderCodes == <<"000000", "000001", "000002", "000003", "000004">>

\* The row _bootstrap_universe appends for placeholder i.
PlaceholderRow(i) ==
    [code |-> PlaceholderCodes[i], placeholder |-> TRUE,
     price |-> 1, tick_count |-> 0, frs |-> 0]

\* Prices are small integers; BasePrice is the price a new row starts with
\* (the last price the symbol request answered, or 10000.0).
BasePrice == 1
Prices == {1, 2}

\* The row _load_stocks_by_codes builds for a code; of its fields the model
\* keeps the price, the tick count and the ranking score.
StockRow(code) ==
    [code |-> code, placeholder |-> FALSE,
     price |-> BasePrice, tick_count |-> 0, frs |-> 0]

\* [s["code"] for s in stocks]
CodesOf(rows) == [i \in DOMAIN rows |-> rows[i].code]

\* {s["code"]: s for s in stocks}
IndexOf(rows) == [c \in Range(CodesOf(rows)) |->
                    rows[CHOOSE i \in DOMAIN rows :
                           /\ rows[i].code = c
                           /\ \A j \in DOMAIN rows : rows[j].code = c => j <= i]]

\* ----------------------------------------------------------------- threads

\* Threads that run execute_condition (the toolbar starts one per click).
Reloaders == {"r1", "r2"}

\* The maintenance loop (_bg_loop), the tick feed worker (_rt_loop) and the
\* execution feed worker (_exec_loop).
Workers == {"bg", "rt", "ex"}

\* The thread that runs close().
Closer == "cl"

\* The consumer: the GUI thread that calls the read methods.
Consumer == "ui"

Threads == Reloaders \cup Workers \cup {Closer, Consumer}

\* Threads that update a symbol record.
Writers == {"rt", "bg"}

\* Threads that call _subscribe_realtime.
Subscribers == Reloaders \cup {"bg", "rt"}

\* ------------------------------------------------------------------- state

VARIABLES
    \* adapter fields (RealDataSimulator.__init__)
    stocks,             \* self.stocks: list of rows
    stock_by_code,      \* self._stock_by_code: code -> row
    candles,            \* self._candles: code -> series
    candle_idx,         \* self._candle_idx: code -> cursor
    candle_req_queue,   \* self._candle_req_queue: deque of codes
    candle_req_set,     \* self._candle_req_set: set of codes
    stress_idx,         \* self._stress_candle_replay_idx: code -> cursor
    rt_connected,       \* self._rt_connected
    rt_subscribed,      \* self._rt_subscribed
    account_no,         \* self._account_no ("" = no session)
    exec_connected,     \* self._exec_connected
    stop,               \* self._bg_stop, self._rt_stop, self._exec_stop
    stress_override,    \* self._stress_override (PERF_STRESS)
    stress_enabled,     \* self._stress_enabled (None, TRUE, FALSE)
    stress_cycle,       \* self._stress_cycle
    \* environment
    market_open,        \* what _is_market_open() answers
    srvSub,             \* codes of the last subscribe request the server took
    \* control state of the threads
    pc,                 \* position of each thread
    ecRaw,              \* execute_condition: the search response
    ecCodes,            \* _load_stocks_by_codes: local codes
    ecRet,              \* execute_condition: value the last call returned
    ecI,                \* _load_stocks_by_codes: index of the enqueue loop
    subCodes,           \* _subscribe_realtime: local codes
    subOk,              \* _subscribe_realtime: self._ok(resp)
    bgStage,            \* _bg_loop: last timed task passed in this iteration
    bgCode,             \* _process_candle_fetch_once: local code
    bgTargets,          \* _run_stress_tick: local targets
    bgK,                \* _run_stress_tick: position in targets
    bgSeries,           \* _run_stress_tick: local series
    bgIdx,              \* _run_stress_tick: local idx
    bgResp,             \* _refresh_dashboard: local resp ("" = none yet)
    \* what the consumer was handed
    grid,               \* codes of the rows of the last get_universe_grid()
    \* history (read by the properties only)
    whole,              \* codes of the universe last installed as a whole
    gridOf,             \* whole when grid was taken; was a reload between its lock sections
    ecClean,            \* this reload began alone and none began since
    ecEnq,              \* codes the reload passed to _enqueue_candle_fetch
    ecSub,              \* the subscription call the reload issued
    rtSub,              \* the subscription call of the current connection
    \* the lock and the steps inside its sections (SpecLock)
    lock,               \* self._lock: owner ("" = free) and depth
    lkCode,             \* the code a tick message or a consumer call names
    lkVal,              \* the price an update carries (0 = no price)
    lkPrev,             \* _refresh_quotes: local prev
    snap,               \* get_stock_detail: the fields read so far
    committed,          \* rows as the last completed lock section left them
    bare,               \* adapter fields accessed without holding the lock
    \* the helpers checked on their own (SpecNum, SpecParse, SpecKeys)
    numIn,              \* _abs_num: the argument v
    numOut,             \* _abs_num: what candle_keys and the adapter return
    resolved,           \* CandleKeyMap.resolved: role -> field name
    locked,             \* CandleKeyMap._locked
    sample,             \* detect / parse: the sample or row of the last call
    bar,                \* detect / parse: what the last call returned
    symbol,             \* one row of self.stocks, with all its price and score fields
    feed,               \* what the last update of the row was given
    \* app_state.AppState (SpecDash)
    dashboard,          \* self.dashboard
    holdings,           \* self.holdings
    outstanding,        \* self.outstanding
    dashboard_signature, \* self._dashboard_signature
    snapshot,           \* set_dashboard_snapshot: the argument of the last call
    outcome,            \* what the last call returned and how often it notified
    \* the stress replay of one symbol (SpecReplay)
    replay_series,             \* self._candles[code]
    replay_idx,         \* self._stress_candle_replay_idx, the entry of the code
    applied,            \* the candles the stress ticks applied, oldest first
    \* the stress policy (SpecStress)
    stress_seen,        \* what stress_active returned last, and under which settings
    \* _api_get (SpecApi)
    api_calls,          \* self._api_calls
    api_errors,         \* self._api_errors
    api,                \* _api_get: the attempts made, the sleeps taken, what it returned
    \* the objects behind the read methods (SpecSnapshots)
    heap,               \* the lists and dicts alive, by identity
    consumer,           \* what the consumer holds of the last read, what it did, and
                        \* what the read methods built when the adapter last wrote
    \* the dashboard flag of perf_real.py (SpecDirty)
    perf_real,          \* self._dashboard_dirty, self._last_dashboard, the position of
                        \* _background_loop, and the events no forced refresh answered
    \* the minute candle endpoint (SpecHeal)
    candle_api          \* whether /api/market/candles/minute answers with bars

tableVars == <<stocks, stock_by_code>>
cacheVars == <<candles, candle_idx, stress_idx>>
queueVars == <<candle_req_queue, candle_req_set>>
flagVars  == <<rt_connected, rt_subscribed, account_no>>
stopVars  == <<exec_connected, stop>>
cfgVars   == <<stress_override, stress_enabled, stress_cycle, market_open>>
ecVars    == <<ecRaw, ecCodes, ecRet, ecI>>
subVars   == <<subCodes, subOk>>
bgVars    == <<bgStage, bgCode, bgTargets, bgK, bgSeries, bgIdx, bgResp>>
gridVars  == <<grid, gridOf>>
histVars  == <<whole, ecClean, ecEnq, ecSub, rtSub>>
lockVars  == <<lock, lkCode, lkVal, lkPrev, snap, committed, bare>>
toolVars  == <<numIn, numOut, resolved, locked, sample, bar, symbol, feed>>
dashVars  == <<dashboard, holdings, outstanding, dashboard_signature, snapshot, outcome>>
replayVars == <<replay_series, replay_idx, applied, stress_seen>>
apiVars == <<api_calls, api_errors, api>>
heapVars == <<heap, consumer>>

vars == <<tableVars, cacheVars, queueVars, flagVars, stopVars, cfgVars, srvSub,
          pc, ecVars, subVars, bgVars, gridVars, histVars, lockVars,
          toolVars, dashVars, replayVars, apiVars, heapVars, perf_real, candle_api>>

\* --------------------------------------------------------------- bootstrap

\* _load_stocks_by_codes: codes = list(dict.fromkeys(codes))[:max(1, self.n)]
LoadCodes(codes) == Take(Dedup(codes), Max(1, n))

\* _load_stocks_by_codes: the rows built by the loop over codes.
NewStocks(codes) == [i \in DOMAIN codes |-> StockRow(codes[i])]

\* What _bootstrap_universe leaves behind, by the environment it ran in:
\*   "loaded"   PERF_CODES was set, or PERF_CONDITION_INDEX ran a search that
\*              returned codes: _load_stocks_by_codes(codes, names)
\*   "failed"   PERF_CONDITION_INDEX was invalid, not found, or its search
\*              failed or was empty: returns before the placeholder step
\*   "none"     neither was set: the placeholder rows
BootModes == {"loaded", "failed", "none"}

\* The codes PERF_CODES or the pre-selected condition produced.
BootCodes == <<"A", "B">>

PlaceholderRows == [i \in 1..NumPlaceholders |-> PlaceholderRow(i)]

BootStocks(mode) ==
    CASE mode = "loaded" -> NewStocks(LoadCodes(BootCodes))
      [] mode = "failed" -> <<>>
      [] OTHER           -> PlaceholderRows

\* No subscribe request has been taken by the server.
NoSub == <<"-">>

\* No value (None), and the two booleans where a value can also be None.
None == "None"
True == "True"
False == "False"

\* No grid was taken yet.
NoGrid == <<None>>

\* No search response yet.
NoResponse == [success |-> FALSE, isdict |-> FALSE, codes |-> <<None>>]

\* The lock when no thread holds it.
FreeLock == [owner |-> "", depth |-> 0]

\* No field of a row was read yet.
NoSnap == [price |-> 0, tick_count |-> -1, frs |-> -1]

\* No _subscribe_realtime call was made.
NoCall == [made |-> FALSE, force |-> FALSE, acct |-> FALSE, codes |-> <<>>,
           sent |-> FALSE]

\* Account id of a logged-in session.
Account == "ACC"

\* The subscription call the tick feed worker made after its connect, as
\* the properties record it.
BootRtSub(mode, acct) ==
    [made  |-> TRUE,
     force |-> TRUE,
     acct  |-> acct # "",
     codes |-> CodesOf(BootStocks(mode)),
     sent  |-> acct # "" /\ BootStocks(mode) # <<>>]

\* The adapter after __init__: universe bootstrapped, the feed workers
\* started, the _subscribe_realtime(force=True) of the constructor answered
\* (sub0), its _refresh_dashboard(force=True) answered ("not logged in"
\* clears the account id: lost); the tick feed worker at its first connect
\* attempt (conn = FALSE) or connected and past its subscription call, which
\* was answered as sub0 (conn = TRUE).
InitAdapterEnv(mode, acct, sub0, lost, conn, perf_stress) ==
    /\ stocks = BootStocks(mode)
    /\ stock_by_code = IndexOf(BootStocks(mode))
    /\ candles = EmptyMap
    /\ candle_idx = EmptyMap
    /\ candle_req_queue = (IF mode = "loaded" THEN LoadCodes(BootCodes) ELSE <<>>)
    /\ candle_req_set = (IF mode = "loaded" THEN Range(LoadCodes(BootCodes)) ELSE {})
    /\ stress_idx = EmptyMap
    /\ rt_connected = conn
    /\ account_no = (IF lost THEN "" ELSE acct)
    /\ rt_subscribed = (acct # "" /\ BootStocks(mode) # <<>> /\ sub0)
    /\ srvSub = (IF acct # "" /\ BootStocks(mode) # <<>> /\ sub0
                 THEN CodesOf(BootStocks(mode)) ELSE NoSub)
    /\ exec_connected = FALSE
    /\ stop = [w \in Workers |-> FALSE]
    /\ stress_override = perf_stress
    /\ stress_enabled = None
    /\ stress_cycle = 0
    /\ rtSub = (IF conn THEN BootRtSub(mode, acct) ELSE NoCall)
    /\ whole = CodesOf(BootStocks(mode))
    /\ lock = FreeLock
    /\ committed = IndexOf(BootStocks(mode))

\* __init__ with PERF_STRESS unset
InitAdapter(mode, acct, sub0, lost, conn) ==
    InitAdapterEnv(mode, acct, sub0, lost, conn, "")

\* The environments __init__ can run in: the bootstrap mode, the account of
\* the session ("" = none), the two answers.
BootEnvs ==
    {e \in [mode : BootModes, acct : {"", Account}, sub0 : BOOLEAN, lost : BOOLEAN] :
       e.acct = "" => (e.sub0 /\ ~e.lost)}

\* The helpers checked on their own hold no call while the adapter runs.
NumIdle == numIn = <<>> /\ numOut = <<>>
KeysIdle == resolved = <<>> /\ locked = FALSE /\ sample = <<>> /\ bar = <<>>
RowIdle == symbol = <<>> /\ feed = <<>>
DashIdle ==
    /\ dashboard = <<>> /\ holdings = <<>> /\ outstanding = <<>>
    /\ dashboard_signature = <<>> /\ snapshot = <<>> /\ outcome = <<>>
ReplayIdle == replay_series = <<>> /\ replay_idx = <<>> /\ applied = <<>>
PolicyIdle == stress_seen = <<>>
ApiIdle == api_calls = 0 /\ api_errors = 0 /\ api = <<>>
HeapIdle == heap = <<>> /\ consumer = <<>>
PerfRealIdle == perf_real = <<>>
CandleApiIdle == candle_api = <<>>
LaterIdle == ReplayIdle /\ PolicyIdle /\ ApiIdle /\ HeapIdle /\ PerfRealIdle /\ CandleApiIdle
ToolsIdle == NumIdle /\ KeysIdle /\ RowIdle /\ DashIdle /\ LaterIdle

InitControl(conn) ==
    /\ pc = [t \in Threads |->
               CASE t = "rt" -> (IF conn THEN "recv" ELSE "top")
                 [] t = "ex" -> "top"
                 [] t = "bg" -> "pre"
                 [] OTHER    -> "idle"]
    /\ ecRaw = [r \in Reloaders |-> NoResponse]
    /\ ecCodes = [r \in Reloaders |-> <<>>]
    /\ ecRet = [r \in Reloaders |-> None]
    /\ ecI = [r \in Reloaders |-> 0]
    /\ subCodes = [t \in Subscribers |-> <<>>]
    /\ subOk = [t \in Subscribers |-> FALSE]
    /\ bgStage = 0
    /\ bgCode = ""
    /\ bgTargets = <<>>
    /\ bgK = 0
    /\ bgSeries = <<>>
    /\ bgIdx = 0
    /\ bgResp = ""
    /\ grid = NoGrid
    /\ gridOf = [universe |-> <<>>, between |-> FALSE]
    /\ ecClean = [r \in Reloaders |-> FALSE]
    /\ ecEnq = [r \in Reloaders |-> <<>>]
    /\ ecSub = [r \in Reloaders |-> [connected |-> FALSE, call |-> NoCall]]
    /\ lkCode = [t \in {"rt", Consumer} |-> ""]
    /\ lkVal = [t \in Writers \cup {Consumer} |-> 0]
    /\ lkPrev = 0
    /\ snap = NoSnap
    /\ bare = {}

\* The threads at their start, no helper called.
InitThreads(conn) == InitControl(conn) /\ ToolsIdle

\* The adapter constructed and left alone, for the helpers checked on their own.
AdapterOnly ==
    /\ InitAdapter("none", Account, TRUE, FALSE, FALSE)
    /\ market_open = TRUE
    /\ InitControl(FALSE)
AdapterAlone == AdapterOnly /\ LaterIdle
AdapterAtRest == AdapterAlone /\ DashIdle

\* The same, for the helpers of candle_keys.py.
KeysAtRest == AdapterAtRest /\ RowIdle

\* The adapter as __init__ returns it.
Init ==
    /\ \E e \in BootEnvs : InitAdapter(e.mode, e.acct, e.sub0, e.lost, FALSE)
    /\ market_open \in BOOLEAN
    /\ InitThreads(FALSE)

\* The adapter serving, market closed: as __init__ returned it, the tick
\* feed worker connected or not.
InitServing ==
    \E conn \in BOOLEAN :
       /\ \E e \in BootEnvs : InitAdapter(e.mode, e.acct, e.sub0, e.lost, conn)
       /\ market_open = FALSE
       /\ InitThreads(conn)

\* ------------------------------------------------------ _subscribe_realtime

\* Where a thread goes on when its _subscribe_realtime call returns: the tick
\* feed worker to its receive loop, the maintenance loop to its next task,
\* _load_stocks_by_codes and execute_condition return.
AfterSub(t) == CASE t = "rt" -> "recv" [] t = "bg" -> "pre" [] OTHER -> "idle"

\* Returning from _subscribe_realtime (execute_condition then returns True).
SubReturn(t) ==
    /\ pc' = [pc EXCEPT ![t] = AfterSub(t)]
    /\ ecRet' = IF t \in Reloaders THEN [ecRet EXCEPT ![t] = True] ELSE ecRet

\* _subscribe_realtime up to the request: the account check, the locked read
\* of the codes, the early returns.
SubBegin(t, force) ==
    /\ pc[t] = "sub_begin"
    /\ IF account_no = ""
       THEN /\ rt_subscribed' = FALSE
            /\ SubReturn(t)
            /\ UNCHANGED subCodes
       ELSE /\ UNCHANGED rt_subscribed
            /\ IF CodesOf(stocks) = <<>> \/ (rt_subscribed /\ ~force)
               THEN SubReturn(t) /\ UNCHANGED subCodes
               ELSE /\ pc' = [pc EXCEPT ![t] = "sub_send"]
                    /\ subCodes' = [subCodes EXCEPT ![t] = CodesOf(stocks)]
                    /\ UNCHANGED ecRet

\* The record the properties keep of a _subscribe_realtime call: its force
\* argument, what it read, and whether it went on to send a request.
SubCall(t, force) ==
    [made  |-> TRUE,
     force |-> force,
     acct  |-> account_no # "",
     codes |-> CodesOf(stocks),
     sent  |-> pc'[t] = "sub_send"]

\* _api_get("/api/realtime/subscribe"): the server takes the request and
\* answers Success (ok), or the request fails.
SubSend(t) ==
    /\ pc[t] = "sub_send"
    /\ \E ok \in BOOLEAN :
          /\ subOk' = [subOk EXCEPT ![t] = ok]
          /\ srvSub' = IF ok THEN subCodes[t] ELSE srvSub
    /\ pc' = [pc EXCEPT ![t] = "sub_done"]
    /\ UNCHANGED <<stocks, stock_by_code, candles, candle_idx,
                   candle_req_queue, candle_req_set, stress_idx,
                   rt_connected, rt_subscribed, account_no, exec_connected,
                   stop, stress_override, stress_enabled, stress_cycle,
                   market_open, ecRaw, ecCodes, ecRet, ecI, subCodes,
                   bgStage, bgCode, bgTargets, bgK, bgSeries, bgIdx, bgResp,
                   grid, gridOf, whole, ecClean, ecEnq, ecSub, rtSub, lock,
                   lkCode, lkVal, lkPrev, snap, committed, bare, numIn,
                   numOut, resolved, locked, sample, bar, symbol, feed,
                   dashboard, holdings, outstanding, dashboard_signature,
                   snapshot, outcome, replay_series, replay_idx, applied,
                   stress_seen, api_calls, api_errors, api, heap, consumer,
                   perf_real, candle_api>>

\* self._rt_subscribed = self._ok(resp); return.
SubDone(t) ==
    /\ pc[t] = "sub_done"
    /\ rt_subscribed' = subOk[t]
    /\ subOk' = [subOk EXCEPT ![t] = FALSE]
    /\ subCodes' = [subCodes EXCEPT ![t] = <<>>]
    /\ SubReturn(t)
    /\ UNCHANGED <<stocks, stock_by_code, candles, candle_idx,
                   candle_req_queue, candle_req_set, stress_idx,
                   rt_connected, account_no, exec_connected, stop,
                   stress_override, stress_enabled, stress_cycle,
                   market_open, srvSub, ecRaw, ecCodes, ecI, bgStage, bgCode,
                   bgTargets, bgK, bgSeries, bgIdx, bgResp, grid, gridOf,
                   whole, ecClean, ecEnq, ecSub, rtSub, lock, lkCode, lkVal,
                   lkPrev, snap, committed, bare, numIn, numOut, resolved,
                   locked, sample, bar, symbol, feed, dashboard, holdings,
                   outstanding, dashboard_signature, snapshot, outcome,
                   replay_series, replay_idx, applied, stress_seen,
                   api_calls, api_errors, api, heap, consumer, perf_real,
                   candle_api>>

\* -------------------------------------------------------- execute_condition

\* Payload lists of Codes a condition search answers with.
RawCodeLists == {<<>>, <<Blank>>, <<"A">>, <<"B", Blank, "B", "C", "A">>}

\* Responses of /api/conditions/search as execute_condition tells them apart:
\* not Success; Success with a Data that is no dict; Success with a dict.
SearchResponses ==
    {[success |-> FALSE, isdict |-> FALSE, codes |-> <<>>],
     [success |-> TRUE,  isdict |-> FALSE, codes |-> <<>>]}
    \cup {[success |-> TRUE, isdict |-> TRUE, codes |-> raw] : raw \in RawCodeLists}

\* [str(c).strip() for c in ... if str(c).strip()]
StripCodes(raw) == SelectSeq(raw, LAMBDA c : c # Blank)

\* execute_condition is called: the search request goes out.
EcCall(r) ==
    /\ pc[r] = "idle"
    /\ pc' = [pc EXCEPT ![r] = "search"]
    /\ ecRet' = [ecRet EXCEPT ![r] = None]
    /\ ecRaw' = [ecRaw EXCEPT ![r] = NoResponse]
    /\ ecCodes' = [ecCodes EXCEPT ![r] = <<>>]
    /\ ecI' = [ecI EXCEPT ![r] = 0]
    /\ ecClean' = [x \in Reloaders |->
                     x = r /\ \A o \in Reloaders \ {r} : pc[o] = "idle"]
    /\ ecEnq' = [ecEnq EXCEPT ![r] = <<>>]
    /\ ecSub' = [ecSub EXCEPT ![r] = [connected |-> FALSE, call |-> NoCall]]
    /\ UNCHANGED <<stocks, stock_by_code, candles, candle_idx,
                   candle_req_queue, candle_req_set, stress_idx,
                   rt_connected, rt_subscribed, account_no, exec_connected,
                   stop, stress_override, stress_enabled, stress_cycle,
                   market_open, srvSub, subCodes, subOk, bgStage, bgCode,
                   bgTargets, bgK, bgSeries, bgIdx, bgResp, grid, gridOf,
                   whole, rtSub, lock, lkCode, lkVal, lkPrev, snap,
                   committed, bare, numIn, numOut, resolved, locked, sample,
                   bar, symbol, feed, dashboard, holdings, outstanding,
                   dashboard_signature, snapshot, outcome, replay_series,
                   replay_idx, applied, stress_seen, api_calls, api_errors,
                   api, heap, consumer, perf_real, candle_api>>

\* Variant: execute_condition going on with any dict payload, codes or not.
AcceptsAnyDict(rs) == rs.success /\ rs.isdict

\* Whether execute_condition goes on to _load_stocks_by_codes.
EcAccepts(rs) == rs.success /\ rs.isdict /\ StripCodes(rs.codes) # <<>>

\* The search response arrives: one of the three early returns, or the call
\* of _load_stocks_by_codes(codes, names).
EcResponse(r) ==
    /\ pc[r] = "search"
    /\ \E rs \in SearchResponses :
          /\ ecRaw' = [ecRaw EXCEPT ![r] = rs]
          /\ IF EcAccepts(rs)
             THEN /\ pc' = [pc EXCEPT ![r] = "strip"]
                  /\ ecCodes' = [ecCodes EXCEPT ![r] = StripCodes(rs.codes)]
                  /\ UNCHANGED ecRet
             ELSE /\ pc' = [pc EXCEPT ![r] = "idle"]
                  /\ ecRet' = [ecRet EXCEPT ![r] = False]
                  /\ UNCHANGED ecCodes
    /\ UNCHANGED <<stocks, stock_by_code, candles, candle_idx,
                   candle_req_queue, candle_req_set, stress_idx,
                   rt_connected, rt_subscribed, account_no, exec_connected,
                   stop, stress_override, stress_enabled, stress_cycle,
                   market_open, srvSub, ecI, subCodes, subOk, bgStage,
                   bgCode, bgTargets, bgK, bgSeries, bgIdx, bgResp, grid,
                   gridOf, whole, ecClean, ecEnq, ecSub, rtSub, lock, lkCode,
                   lkVal, lkPrev, snap, committed, bare, numIn, numOut,
                   resolved, locked, sample, bar, symbol, feed, dashboard,
                   holdings, outstanding, dashboard_signature, snapshot,
                   outcome, replay_series, replay_idx, applied, stress_seen,
                   api_calls, api_errors, api, heap, consumer, perf_real,
                   candle_api>>

\* ---------------------------------------------------- _load_stocks_by_codes

\* self.stocks = [s for s in self.stocks if not s.get("_placeholder")]
StripPlaceholders(rows) == SelectSeq(rows, LAMBDA s : ~s.placeholder)

\* First lock section: the placeholder rows go; then, on locals, the codes
\* are de-duplicated and cut, and the loop over codes begins (one
\* /api/market/symbol request per code, the rows built in a local list).
LoadStrip(r) ==
    /\ pc[r] = "strip"
    /\ stocks' = StripPlaceholders(stocks)
    /\ stock_by_code' = Pop(stock_by_code, "000000")
    /\ committed' = stock_by_code'
    /\ ecCodes' = [ecCodes EXCEPT ![r] = LoadCodes(ecCodes[r])]
    /\ pc' = [pc EXCEPT ![r] = "symbols"]
    /\ UNCHANGED <<candles, candle_idx, candle_req_queue, candle_req_set,
                   stress_idx, rt_connected, rt_subscribed, account_no,
                   exec_connected, stop, stress_override, stress_enabled,
                   stress_cycle, market_open, srvSub, ecRaw, ecRet, ecI,
                   subCodes, subOk, bgStage, bgCode, bgTargets, bgK,
                   bgSeries, bgIdx, bgResp, grid, gridOf, whole, ecClean,
                   ecEnq, ecSub, rtSub, lock, lkCode, lkVal, lkPrev, snap,
                   bare, numIn, numOut, resolved, locked, sample, bar,
                   symbol, feed, dashboard, holdings, outstanding,
                   dashboard_signature, snapshot, outcome, replay_series,
                   replay_idx, applied, stress_seen, api_calls, api_errors,
                   api, heap, consumer, perf_real, candle_api>>

\* Variant: a merge of the new rows into the old table instead of the replacement.
MergeStocks(cur, new) == cur \o new

\* self.stocks = stocks
ReplaceStocks(cur, new) == new

\* Variant: a cache that survives the reload.
KeptCache(cache) == cache

\* What the second lock section leaves of a cache (.clear()).
Cleared(cache) == EmptyMap

\* The loop over codes is over. Second lock section: the new table and index, every cache cleared.
LoadSwap(r) ==
    /\ pc[r] = "symbols"
    /\ stocks' = ReplaceStocks(stocks, NewStocks(ecCodes[r]))
    /\ stock_by_code' = IndexOf(NewStocks(ecCodes[r]))
    /\ candles' = Cleared(candles)
    /\ candle_idx' = Cleared(candle_idx)
    /\ candle_req_queue' = <<>>
    /\ candle_req_set' = {}
    /\ stress_idx' = Cleared(stress_idx)
    /\ pc' = [pc EXCEPT ![r] = "enqueue"]
    /\ ecI' = [ecI EXCEPT ![r] = 1]
    /\ whole' = ecCodes[r]
    /\ committed' = stock_by_code'
    /\ UNCHANGED <<rt_connected, rt_subscribed, account_no, exec_connected,
                   stop, stress_override, stress_enabled, stress_cycle,
                   market_open, srvSub, ecRaw, ecCodes, ecRet, subCodes,
                   subOk, bgStage, bgCode, bgTargets, bgK, bgSeries, bgIdx,
                   bgResp, grid, gridOf, ecClean, ecEnq, ecSub, rtSub, lock,
                   lkCode, lkVal, lkPrev, snap, bare, numIn, numOut,
                   resolved, locked, sample, bar, symbol, feed, dashboard,
                   holdings, outstanding, dashboard_signature, snapshot,
                   outcome, replay_series, replay_idx, applied, stress_seen,
                   api_calls, api_errors, api, heap, consumer, perf_real,
                   candle_api>>

\* Variant: a code joins the queue whether it is pending or not.
EnqueueAlways(code) ==
    /\ candle_req_set' = candle_req_set \cup {code}
    /\ candle_req_queue' = Append(candle_req_queue, code)

\* _enqueue_candle_fetch(code): nothing for a blank code or a code that is
\* already pending, else the code joins the set and the queue.
EnqueueCandleFetch(code) ==
    IF code = "" \/ code \in candle_req_set
    THEN UNCHANGED <<candle_req_queue, candle_req_set>>
    ELSE /\ candle_req_set' = candle_req_set \cup {code}
         /\ candle_req_queue' = Append(candle_req_queue, code)

\* for s in stocks: self._enqueue_candle_fetch(s["code"]), one call a step.
LoadEnqueue(r) ==
    /\ pc[r] = "enqueue"
    /\ ecI[r] <= Len(ecCodes[r])
    /\ EnqueueCandleFetch(ecCodes[r][ecI[r]])
    /\ ecEnq' = [ecEnq EXCEPT ![r] = Append(@, ecCodes[r][ecI[r]])]
    /\ ecI' = [ecI EXCEPT ![r] = @ + 1]
    /\ UNCHANGED <<stocks, stock_by_code, candles, candle_idx, stress_idx,
                   rt_connected, rt_subscribed, account_no, exec_connected,
                   stop, stress_override, stress_enabled, stress_cycle,
                   market_open, srvSub, pc, ecRaw, ecCodes, ecRet, subCodes,
                   subOk, bgStage, bgCode, bgTargets, bgK, bgSeries, bgIdx,
                   bgResp, grid, gridOf, whole, ecClean, ecSub, rtSub, lock,
                   lkCode, lkVal, lkPrev, snap, committed, bare, numIn,
                   numOut, resolved, locked, sample, bar, symbol, feed,
                   dashboard, holdings, outstanding, dashboard_signature,
                   snapshot, outcome, replay_series, replay_idx, applied,
                   stress_seen, api_calls, api_errors, api, heap, consumer,
                   perf_real, candle_api>>

\* Whether the reload goes on to _subscribe_realtime(force=True).
LoadWantsSubscribe == rt_connected

\* if self._rt_connected: the unlocked read after the enqueue loop; the
\* reload returns at once when the flag is false.
LoadCheckFeed(r) ==
    /\ pc[r] = "enqueue"
    /\ ecI[r] > Len(ecCodes[r])
    /\ IF LoadWantsSubscribe
       THEN /\ pc' = [pc EXCEPT ![r] = "sub_begin"]
            /\ UNCHANGED ecRet
       ELSE /\ pc' = [pc EXCEPT ![r] = "idle"]
            /\ ecRet' = [ecRet EXCEPT ![r] = True]
    /\ ecSub' = [ecSub EXCEPT ![r] = [connected |-> rt_connected, call |-> NoCall]]
    /\ UNCHANGED <<stocks, stock_by_code, candles, candle_idx,
                   candle_req_queue, candle_req_set, stress_idx,
                   rt_connected, rt_subscribed, account_no, exec_connected,
                   stop, stress_override, stress_enabled, stress_cycle,
                   market_open, srvSub, ecRaw, ecCodes, ecI, subCodes, subOk,
                   bgStage, bgCode, bgTargets, bgK, bgSeries, bgIdx, bgResp,
                   grid, gridOf, whole, ecClean, ecEnq, rtSub, lock, lkCode,
                   lkVal, lkPrev, snap, committed, bare, numIn, numOut,
                   resolved, locked, sample, bar, symbol, feed, dashboard,
                   holdings, outstanding, dashboard_signature, snapshot,
                   outcome, replay_series, replay_idx, applied, stress_seen,
                   api_calls, api_errors, api, heap, consumer, perf_real,
                   candle_api>>

\* self._subscribe_realtime(force=True) at the end of the reload.
LoadSubscribe(r) ==
    /\ r \in Reloaders
    /\ SubBegin(r, TRUE)
    /\ ecSub' = [ecSub EXCEPT ![r].call = SubCall(r, TRUE)]
    /\ UNCHANGED <<stocks, stock_by_code, candles, candle_idx,
                   candle_req_queue, candle_req_set, stress_idx,
                   rt_connected, account_no, exec_connected, stop,
                   stress_override, stress_enabled, stress_cycle,
                   market_open, srvSub, ecRaw, ecCodes, ecI, subOk, bgStage,
                   bgCode, bgTargets, bgK, bgSeries, bgIdx, bgResp, grid,
                   gridOf, whole, ecClean, ecEnq, rtSub, lock, lkCode, lkVal,
                   lkPrev, snap, committed, bare, numIn, numOut, resolved,
                   locked, sample, bar, symbol, feed, dashboard, holdings,
                   outstanding, dashboard_signature, snapshot, outcome,
                   replay_series, replay_idx, applied, stress_seen,
                   api_calls, api_errors, api, heap, consumer, perf_real,
                   candle_api>>

\* ------------------------------------------------------------------ _bg_loop

\* Positions of the maintenance loop inside its try block.
BgInTry == {"pre", "login", "dash", "sub_begin", "sub_send", "sub_done",
            "fetch", "post", "s_read", "s_idx", "s_write", "s_apply"}

\* The maintenance loop at "pre" with bgStage = 0 is at its loop test,
\* "while not self._bg_stop.is_set()"; it goes on into the iteration when
\* the flag is clear (bgStage > 0: the iteration is under way).
BgRunning == pc["bg"] = "pre" /\ (bgStage = 0 => ~stop["bg"])

\* The loop test finds the flag set: the loop ends.
BgStop ==
    /\ pc["bg"] = "pre" /\ bgStage = 0
    /\ stop["bg"]
    /\ pc' = [pc EXCEPT !["bg"] = "ended"]
    /\ UNCHANGED <<stocks, stock_by_code, candles, candle_idx,
                   candle_req_queue, candle_req_set, stress_idx,
                   rt_connected, rt_subscribed, account_no, exec_connected,
                   stop, stress_override, stress_enabled, stress_cycle,
                   market_open, srvSub, ecRaw, ecCodes, ecRet, ecI, subCodes,
                   subOk, bgStage, bgCode, bgTargets, bgK, bgSeries, bgIdx,
                   bgResp, grid, gridOf, whole, ecClean, ecEnq, ecSub, rtSub,
                   lock, lkCode, lkVal, lkPrev, snap, committed, bare, numIn,
                   numOut, resolved, locked, sample, bar, symbol, feed,
                   dashboard, holdings, outstanding, dashboard_signature,
                   snapshot, outcome, replay_series, replay_idx, applied,
                   stress_seen, api_calls, api_errors, api, heap, consumer,
                   perf_real, candle_api>>

\* No session and the login timer is due: _ensure_login(max_wait_sec=2.0).
BgLogin ==
    /\ BgRunning /\ bgStage < 1
    /\ account_no = ""
    /\ pc' = [pc EXCEPT !["bg"] = "login"]
    /\ bgStage' = 1
    /\ UNCHANGED <<stocks, stock_by_code, candles, candle_idx,
                   candle_req_queue, candle_req_set, stress_idx,
                   rt_connected, rt_subscribed, account_no, exec_connected,
                   stop, stress_override, stress_enabled, stress_cycle,
                   market_open, srvSub, ecRaw, ecCodes, ecRet, ecI, subCodes,
                   subOk, bgCode, bgTargets, bgK, bgSeries, bgIdx, bgResp,
                   grid, gridOf, whole, ecClean, ecEnq, ecSub, rtSub, lock,
                   lkCode, lkVal, lkPrev, snap, committed, bare, numIn,
                   numOut, resolved, locked, sample, bar, symbol, feed,
                   dashboard, holdings, outstanding, dashboard_signature,
                   snapshot, outcome, replay_series, replay_idx, applied,
                   stress_seen, api_calls, api_errors, api, heap, consumer,
                   perf_real, candle_api>>

\* _is_logged_in sets _account_no from /api/status: a session or none.
BgLoginDone ==
    /\ pc["bg"] = "login"
    /\ account_no' \in {"", Account}
    /\ pc' = [pc EXCEPT !["bg"] = "pre"]
    /\ UNCHANGED <<stocks, stock_by_code, candles, candle_idx,
                   candle_req_queue, candle_req_set, stress_idx,
                   rt_connected, rt_subscribed, exec_connected, stop,
                   stress_override, stress_enabled, stress_cycle,
                   market_open, srvSub, ecRaw, ecCodes, ecRet, ecI, subCodes,
                   subOk, bgStage, bgCode, bgTargets, bgK, bgSeries, bgIdx,
                   bgResp, grid, gridOf, whole, ecClean, ecEnq, ecSub, rtSub,
                   lock, lkCode, lkVal, lkPrev, snap, committed, bare, numIn,
                   numOut, resolved, locked, sample, bar, symbol, feed,
                   dashboard, holdings, outstanding, dashboard_signature,
                   snapshot, outcome, replay_series, replay_idx, applied,
                   stress_seen, api_calls, api_errors, api, heap, consumer,
                   perf_real, candle_api>>

\* A session, the subscribe timer due, connected, and not subscribed or
\* (market open and the feed stale): _subscribe_realtime(force=True).
BgSubHealth ==
    /\ BgRunning /\ bgStage < 2
    /\ account_no # ""
    /\ rt_connected /\ (~rt_subscribed \/ market_open)
    /\ pc' = [pc EXCEPT !["bg"] = "sub_begin"]
    /\ bgStage' = 2
    /\ UNCHANGED <<stocks, stock_by_code, candles, candle_idx,
                   candle_req_queue, candle_req_set, stress_idx,
                   rt_connected, rt_subscribed, account_no, exec_connected,
                   stop, stress_override, stress_enabled, stress_cycle,
                   market_open, srvSub, ecRaw, ecCodes, ecRet, ecI, subCodes,
                   subOk, bgCode, bgTargets, bgK, bgSeries, bgIdx, bgResp,
                   grid, gridOf, whole, ecClean, ecEnq, ecSub, rtSub, lock,
                   lkCode, lkVal, lkPrev, snap, committed, bare, numIn,
                   numOut, resolved, locked, sample, bar, symbol, feed,
                   dashboard, holdings, outstanding, dashboard_signature,
                   snapshot, outcome, replay_series, replay_idx, applied,
                   stress_seen, api_calls, api_errors, api, heap, consumer,
                   perf_real, candle_api>>

\* The subscription call of the health check.
BgSubscribe ==
    /\ SubBegin("bg", TRUE)
    /\ UNCHANGED <<stocks, stock_by_code, candles, candle_idx,
                   candle_req_queue, candle_req_set, stress_idx,
                   rt_connected, account_no, exec_connected, stop,
                   stress_override, stress_enabled, stress_cycle,
                   market_open, srvSub, ecRaw, ecCodes, ecI, subOk, bgStage,
                   bgCode, bgTargets, bgK, bgSeries, bgIdx, bgResp, grid,
                   gridOf, whole, ecClean, ecEnq, ecSub, rtSub, lock, lkCode,
                   lkVal, lkPrev, snap, committed, bare, numIn, numOut,
                   resolved, locked, sample, bar, symbol, feed, dashboard,
                   holdings, outstanding, dashboard_signature, snapshot,
                   outcome, replay_series, replay_idx, applied, stress_seen,
                   api_calls, api_errors, api, heap, consumer, perf_real,
                   candle_api>>

\* The dashboard timer is due: _refresh_dashboard(force=False) sends its
\* request.
BgDash ==
    /\ BgRunning /\ bgStage < 3
    /\ pc' = [pc EXCEPT !["bg"] = "dash"]
    /\ bgStage' = 3
    /\ UNCHANGED <<stocks, stock_by_code, candles, candle_idx,
                   candle_req_queue, candle_req_set, stress_idx,
                   rt_connected, rt_subscribed, account_no, exec_connected,
                   stop, stress_override, stress_enabled, stress_cycle,
                   market_open, srvSub, ecRaw, ecCodes, ecRet, ecI, subCodes,
                   subOk, bgCode, bgTargets, bgK, bgSeries, bgIdx, bgResp,
                   grid, gridOf, whole, ecClean, ecEnq, ecSub, rtSub, lock,
                   lkCode, lkVal, lkPrev, snap, committed, bare, numIn,
                   numOut, resolved, locked, sample, bar, symbol, feed,
                   dashboard, holdings, outstanding, dashboard_signature,
                   snapshot, outcome, replay_series, replay_idx, applied,
                   stress_seen, api_calls, api_errors, api, heap, consumer,
                   perf_real, candle_api>>

\* Answers of /api/dashboard and /api/dashboard/refresh as _refresh_dashboard
\* tells them apart.
DashResponses == {"ok", "not logged in", "failed"}

\* Variant: a session error leaves the account id as it is.
KeepsAccount(resp) == account_no' = account_no

\* _refresh_dashboard after the response: a failure whose message holds
\* "not logged in" clears the account id.
RefreshDashboard(resp) ==
    account_no' = IF resp = "not logged in" THEN "" ELSE account_no

\* resp = self._api_get(path)
BgDashResponse ==
    /\ pc["bg"] = "dash"
    /\ bgResp' \in DashResponses
    /\ pc' = [pc EXCEPT !["bg"] = "dash_resp"]
    /\ UNCHANGED <<stocks, stock_by_code, candles, candle_idx,
                   candle_req_queue, candle_req_set, stress_idx,
                   rt_connected, rt_subscribed, account_no, exec_connected,
                   stop, stress_override, stress_enabled, stress_cycle,
                   market_open, srvSub, ecRaw, ecCodes, ecRet, ecI, subCodes,
                   subOk, bgStage, bgCode, bgTargets, bgK, bgSeries, bgIdx,
                   grid, gridOf, whole, ecClean, ecEnq, ecSub, rtSub, lock,
                   lkCode, lkVal, lkPrev, snap, committed, bare, numIn,
                   numOut, resolved, locked, sample, bar, symbol, feed,
                   dashboard, holdings, outstanding, dashboard_signature,
                   snapshot, outcome, replay_series, replay_idx, applied,
                   stress_seen, api_calls, api_errors, api, heap, consumer,
                   perf_real, candle_api>>

\* The if / elif on resp; _refresh_dashboard returns.
BgDashDone ==
    /\ pc["bg"] = "dash_resp"
    /\ RefreshDashboard(bgResp)
    /\ bgResp' = ""
    /\ pc' = [pc EXCEPT !["bg"] = "pre"]
    /\ UNCHANGED <<stocks, stock_by_code, candles, candle_idx,
                   candle_req_queue, candle_req_set, stress_idx,
                   rt_connected, rt_subscribed, exec_connected, stop,
                   stress_override, stress_enabled, stress_cycle,
                   market_open, srvSub, ecRaw, ecCodes, ecRet, ecI, subCodes,
                   subOk, bgStage, bgCode, bgTargets, bgK, bgSeries, bgIdx,
                   grid, gridOf, whole, ecClean, ecEnq, ecSub, rtSub, lock,
                   lkCode, lkVal, lkPrev, snap, committed, bare, numIn,
                   numOut, resolved, locked, sample, bar, symbol, feed,
                   dashboard, holdings, outstanding, dashboard_signature,
                   snapshot, outcome, replay_series, replay_idx, applied,
                   stress_seen, api_calls, api_errors, api, heap, consumer,
                   perf_real, candle_api>>

\* ------------------------------------------------ _process_candle_fetch_once

\* Series the candle endpoint answers with, after _parse_rows: none, or
\* 1..MaxBars bars (a bar is named by its position in time order).
FetchResults == {[i \in 1..k |-> i] : k \in 0..MaxBars}

\* _fetch_candles_minute: code.startswith("0000")
IsDummyCode(code) == code \in Range(PlaceholderCodes)

\* max(0, len(rows) - min(120, len(rows)))
ReplayStart(len) == Max(0, len - Min(ReplayWindow, len))

\* First lock section: pop one pending code, if there is one.
BgCandlePop ==
    /\ BgRunning
    /\ bgStage' = 0
    /\ IF candle_req_queue # <<>>
       THEN /\ bgCode' = Head(candle_req_queue)
            /\ candle_req_queue' = Tail(candle_req_queue)
            /\ candle_req_set' = candle_req_set \ {Head(candle_req_queue)}
            /\ pc' = [pc EXCEPT !["bg"] = "fetch"]
       ELSE /\ bgCode' = ""
            /\ UNCHANGED <<candle_req_queue, candle_req_set>>
            /\ pc' = [pc EXCEPT !["bg"] = "post"]
    /\ UNCHANGED <<stocks, stock_by_code, candles, candle_idx, stress_idx,
                   rt_connected, rt_subscribed, account_no, exec_connected,
                   stop, stress_override, stress_enabled, stress_cycle,
                   market_open, srvSub, ecRaw, ecCodes, ecRet, ecI, subCodes,
                   subOk, bgTargets, bgK, bgSeries, bgIdx, bgResp, grid,
                   gridOf, whole, ecClean, ecEnq, ecSub, rtSub, lock, lkCode,
                   lkVal, lkPrev, snap, committed, bare, numIn, numOut,
                   resolved, locked, sample, bar, symbol, feed, dashboard,
                   holdings, outstanding, dashboard_signature, snapshot,
                   outcome, replay_series, replay_idx, applied, stress_seen,
                   api_calls, api_errors, api, heap, consumer, perf_real,
                   candle_api>>

\* What the second lock section stores for the rows fetched.
CandleStore(code, rows) ==
    IF rows # <<>>
    THEN /\ candles' = Put(candles, code, rows)
         /\ candle_idx' = Put(candle_idx, code, ReplayStart(Len(rows)))
    ELSE UNCHANGED <<candles, candle_idx>>

\* The fetch answers and, if there are rows, the second lock section stores
\* them.
BgCandleStore ==
    /\ pc["bg"] = "fetch"
    /\ \E rows \in (IF IsDummyCode(bgCode) THEN {<<>>} ELSE FetchResults) :
          CandleStore(bgCode, rows)
    /\ bgCode' = ""
    /\ pc' = [pc EXCEPT !["bg"] = "post"]
    /\ UNCHANGED <<stocks, stock_by_code, candle_req_queue, candle_req_set,
                   stress_idx, rt_connected, rt_subscribed, account_no,
                   exec_connected, stop, stress_override, stress_enabled,
                   stress_cycle, market_open, srvSub, ecRaw, ecCodes, ecRet,
                   ecI, subCodes, subOk, bgStage, bgTargets, bgK, bgSeries,
                   bgIdx, bgResp, grid, gridOf, whole, ecClean, ecEnq, ecSub,
                   rtSub, lock, lkCode, lkVal, lkPrev, snap, committed, bare,
                   numIn, numOut, resolved, locked, sample, bar, symbol,
                   feed, dashboard, holdings, outstanding,
                   dashboard_signature, snapshot, outcome, replay_series,
                   replay_idx, applied, stress_seen, api_calls, api_errors,
                   api, heap, consumer, perf_real, candle_api>>

\* ------------------------------------------------------------ row updates

\* strategy.recompute_scores(s, ...): the ranking score as it follows from
\* the price and the tick count the row holds at the call.
Score(price, ticks) == price * 10 + ticks

\* Most updates the rows take together before the feeds go quiet.
MaxTicks == 2

\* sum(s["tick_count"] for s in self.stocks[:k])
RECURSIVE TicksOf(_, _)
TicksOf(rows, k) == IF k = 0 THEN 0 ELSE rows[k].tick_count + TicksOf(rows, k - 1)

\* The rows have not taken MaxTicks updates yet.
Budget == TicksOf(stocks, Len(stocks)) < MaxTicks

\* s[...] = ... on the row of a code: self.stocks and self._stock_by_code
\* hold the same row object.
SetRow(code, row) ==
    /\ stock_by_code' = [stock_by_code EXCEPT ![code] = row]
    /\ stocks' = [i \in DOMAIN stocks |->
                    IF stocks[i].code = code THEN row ELSE stocks[i]]

\* ---------------------------------------------------------- _run_stress_tick

\* Variant: the setting of set_stress_enabled read before PERF_STRESS.
RuntimeSettingFirst ==
    CASE stress_enabled # None -> stress_enabled = True
      [] stress_override = "1" -> TRUE
      [] stress_override = "0" -> FALSE
      [] OTHER                 -> ~market_open

\* Variant: automatic follows the market instead of its closing.
ActiveWhenOpen ==
    CASE stress_override = "1" -> TRUE
      [] stress_override = "0" -> FALSE
      [] stress_enabled # None -> stress_enabled = True
      [] OTHER                 -> market_open

\* stress_active
StressActive ==
    CASE stress_override = "1" -> TRUE
      [] stress_override = "0" -> FALSE
      [] stress_enabled # None -> stress_enabled = True
      [] OTHER                 -> ~market_open

\* _bg_loop: "if st and not mo", the stress timer due: _run_stress_tick
\* starts, counts the cycle (self._stress_cycle += 1), its lock section
\* takes targets = self.stocks[:self._stress_batch].
BgStressBegin ==
    /\ pc["bg"] = "post"
    /\ StressActive /\ ~market_open
    /\ Budget
    /\ stress_cycle < MaxCycles
    /\ stress_cycle' = stress_cycle + 1
    /\ bgTargets' = Take(stocks, StressBatchDefault)
    /\ bgK' = 1
    /\ pc' = [pc EXCEPT !["bg"] = "s_read"]
    /\ UNCHANGED <<stocks, stock_by_code, candles, candle_idx,
                   candle_req_queue, candle_req_set, stress_idx,
                   rt_connected, rt_subscribed, account_no, exec_connected,
                   stop, stress_override, stress_enabled, market_open,
                   srvSub, ecRaw, ecCodes, ecRet, ecI, subCodes, subOk,
                   bgStage, bgCode, bgSeries, bgIdx, bgResp, grid, gridOf,
                   whole, ecClean, ecEnq, ecSub, rtSub, lock, lkCode, lkVal,
                   lkPrev, snap, committed, bare, numIn, numOut, resolved,
                   locked, sample, bar, symbol, feed, dashboard, holdings,
                   outstanding, dashboard_signature, snapshot, outcome,
                   replay_series, replay_idx, applied, stress_seen,
                   api_calls, api_errors, api, heap, consumer, perf_real,
                   candle_api>>

\* _bg_loop: no stress tick in this iteration; time.sleep(0.05), then the
\* loop test.
BgIterEnd ==
    /\ pc["bg"] = "post"
    /\ pc' = [pc EXCEPT !["bg"] = "pre"]
    /\ UNCHANGED <<stocks, stock_by_code, candles, candle_idx,
                   candle_req_queue, candle_req_set, stress_idx,
                   rt_connected, rt_subscribed, account_no, exec_connected,
                   stop, stress_override, stress_enabled, stress_cycle,
                   market_open, srvSub, ecRaw, ecCodes, ecRet, ecI, subCodes,
                   subOk, bgStage, bgCode, bgTargets, bgK, bgSeries, bgIdx,
                   bgResp, grid, gridOf, whole, ecClean, ecEnq, ecSub, rtSub,
                   lock, lkCode, lkVal, lkPrev, snap, committed, bare, numIn,
                   numOut, resolved, locked, sample, bar, symbol, feed,
                   dashboard, holdings, outstanding, dashboard_signature,
                   snapshot, outcome, replay_series, replay_idx, applied,
                   stress_seen, api_calls, api_errors, api, heap, consumer,
                   perf_real, candle_api>>

\* for s in targets, outside the lock: series = self._candles.get(code, []);
\* a symbol without a series is skipped; after the last one the tick is over.
BgStressRead ==
    /\ pc["bg"] = "s_read"
    /\ IF bgK > Len(bgTargets)
       THEN /\ pc' = [pc EXCEPT !["bg"] = "pre"]
            /\ bgTargets' = <<>>
            /\ bgK' = 0
            /\ UNCHANGED bgSeries
       ELSE LET series == Get(candles, bgTargets[bgK].code, <<>>)
            IN IF series = <<>>
               THEN /\ bgK' = bgK + 1
                    /\ UNCHANGED <<pc, bgTargets, bgSeries>>
               ELSE /\ bgSeries' = series
                    /\ pc' = [pc EXCEPT !["bg"] = "s_idx"]
                    /\ UNCHANGED <<bgTargets, bgK>>
    /\ UNCHANGED <<stocks, stock_by_code, candles, candle_idx,
                   candle_req_queue, candle_req_set, stress_idx,
                   rt_connected, rt_subscribed, account_no, exec_connected,
                   stop, stress_override, stress_enabled, stress_cycle,
                   market_open, srvSub, ecRaw, ecCodes, ecRet, ecI, subCodes,
                   subOk, bgStage, bgCode, bgIdx, bgResp, grid, gridOf,
                   whole, ecClean, ecEnq, ecSub, rtSub, lock, lkCode, lkVal,
                   lkPrev, snap, committed, bare, numIn, numOut, resolved,
                   locked, sample, bar, symbol, feed, dashboard, holdings,
                   outstanding, dashboard_signature, snapshot, outcome,
                   replay_series, replay_idx, applied, stress_seen,
                   api_calls, api_errors, api, heap, consumer, perf_real,
                   candle_api>>

\* Variant: a cursor past the end stays on the last candle.
StaysOnLast(idx, len) == IF idx >= len THEN len - 1 ELSE idx

\* if idx >= len(series): idx = 0
ReplayIdx(idx, len) == IF idx >= len THEN 0 ELSE idx

\* idx = self._stress_candle_replay_idx.get(code, 0), outside the lock;
\* if idx >= len(series): idx = 0
BgStressIdx ==
    /\ pc["bg"] = "s_idx"
    /\ bgIdx' = ReplayIdx(Get(stress_idx, bgTargets[bgK].code, 0), Len(bgSeries))
    /\ pc' = [pc EXCEPT !["bg"] = "s_write"]
    /\ UNCHANGED <<stocks, stock_by_code, candles, candle_idx,
                   candle_req_queue, candle_req_set, stress_idx,
                   rt_connected, rt_subscribed, account_no, exec_connected,
                   stop, stress_override, stress_enabled, stress_cycle,
                   market_open, srvSub, ecRaw, ecCodes, ecRet, ecI, subCodes,
                   subOk, bgStage, bgCode, bgTargets, bgK, bgSeries, bgResp,
                   grid, gridOf, whole, ecClean, ecEnq, ecSub, rtSub, lock,
                   lkCode, lkVal, lkPrev, snap, committed, bare, numIn,
                   numOut, resolved, locked, sample, bar, symbol, feed,
                   dashboard, holdings, outstanding, dashboard_signature,
                   snapshot, outcome, replay_series, replay_idx, applied,
                   stress_seen, api_calls, api_errors, api, heap, consumer,
                   perf_real, candle_api>>

\* self._stress_candle_replay_idx[code] = idx + 1, outside the lock.
BgStressWrite ==
    /\ pc["bg"] = "s_write"
    /\ stress_idx' = Put(stress_idx, bgTargets[bgK].code, bgIdx + 1)
    /\ pc' = [pc EXCEPT !["bg"] = "s_apply"]
    /\ UNCHANGED <<stocks, stock_by_code, candles, candle_idx,
                   candle_req_queue, candle_req_set, rt_connected,
                   rt_subscribed, account_no, exec_connected, stop,
                   stress_override, stress_enabled, stress_cycle,
                   market_open, srvSub, ecRaw, ecCodes, ecRet, ecI, subCodes,
                   subOk, bgStage, bgCode, bgTargets, bgK, bgSeries, bgIdx,
                   bgResp, grid, gridOf, whole, ecClean, ecEnq, ecSub, rtSub,
                   lock, lkCode, lkVal, lkPrev, snap, committed, bare, numIn,
                   numOut, resolved, locked, sample, bar, symbol, feed,
                   dashboard, holdings, outstanding, dashboard_signature,
                   snapshot, outcome, replay_series, replay_idx, applied,
                   stress_seen, api_calls, api_errors, api, heap, consumer,
                   perf_real, candle_api>>

\* The lock section that applies candle = series[idx] to the row of the
\* code, if the code index still has one: the price, the tick count, the
\* scores.
BgStressApply ==
    /\ pc["bg"] = "s_apply"
    /\ LET code == bgTargets[bgK].code
       IN IF code \in DOMAIN stock_by_code
          THEN LET s == stock_by_code[code]
                   p == bgSeries[bgIdx + 1]
               IN SetRow(code, [s EXCEPT !.price = p,
                                         !.tick_count = @ + 1,
                                         !.frs = Score(p, s.tick_count + 1)])
          ELSE UNCHANGED <<stocks, stock_by_code>>
    /\ committed' = stock_by_code'
    /\ bgK' = bgK + 1
    /\ bgSeries' = <<>>
    /\ bgIdx' = 0
    /\ pc' = [pc EXCEPT !["bg"] = "s_read"]
    /\ UNCHANGED <<candles, candle_idx, candle_req_queue, candle_req_set,
                   stress_idx, rt_connected, rt_subscribed, account_no,
                   exec_connected, stop, stress_override, stress_enabled,
                   stress_cycle, market_open, srvSub, ecRaw, ecCodes, ecRet,
                   ecI, subCodes, subOk, bgStage, bgCode, bgTargets, bgResp,
                   grid, gridOf, whole, ecClean, ecEnq, ecSub, rtSub, lock,
                   lkCode, lkVal, lkPrev, snap, bare, numIn, numOut,
                   resolved, locked, sample, bar, symbol, feed, dashboard,
                   holdings, outstanding, dashboard_signature, snapshot,
                   outcome, replay_series, replay_idx, applied, stress_seen,
                   api_calls, api_errors, api, heap, consumer, perf_real,
                   candle_api>>

\* Variant: an exception that leaves the loop.
Escapes == "ended"

\* Where an exception raised inside the try block of _bg_loop goes: the
\* except clause prints it.
BgHandler == "caught"

\* A task raises.
BgRaise ==
    /\ pc["bg"] \in BgInTry
    /\ pc["bg"] = "pre" => BgRunning
    /\ pc' = [pc EXCEPT !["bg"] = BgHandler]
    /\ bgStage' = 0
    /\ bgCode' = ""
    /\ bgTargets' = <<>>
    /\ bgK' = 0
    /\ bgSeries' = <<>>
    /\ bgIdx' = 0
    /\ UNCHANGED <<stocks, stock_by_code, candles, candle_idx,
                   candle_req_queue, candle_req_set, stress_idx,
                   rt_connected, rt_subscribed, account_no, exec_connected,
                   stop, stress_override, stress_enabled, stress_cycle,
                   market_open, srvSub, ecRaw, ecCodes, ecRet, ecI, subCodes,
                   subOk, bgResp, grid, gridOf, whole, ecClean, ecEnq, ecSub,
                   rtSub, lock, lkCode, lkVal, lkPrev, snap, committed, bare,
                   numIn, numOut, resolved, locked, sample, bar, symbol,
                   feed, dashboard, holdings, outstanding,
                   dashboard_signature, snapshot, outcome, replay_series,
                   replay_idx, applied, stress_seen, api_calls, api_errors,
                   api, heap, consumer, perf_real, candle_api>>

\* After the except clause: time.sleep(0.05), then the loop test.
BgResume ==
    /\ pc["bg"] = "caught"
    /\ pc' = [pc EXCEPT !["bg"] = "pre"]
    /\ UNCHANGED <<stocks, stock_by_code, candles, candle_idx,
                   candle_req_queue, candle_req_set, stress_idx,
                   rt_connected, rt_subscribed, account_no, exec_connected,
                   stop, stress_override, stress_enabled, stress_cycle,
                   market_open, srvSub, ecRaw, ecCodes, ecRet, ecI, subCodes,
                   subOk, bgStage, bgCode, bgTargets, bgK, bgSeries, bgIdx,
                   bgResp, grid, gridOf, whole, ecClean, ecEnq, ecSub, rtSub,
                   lock, lkCode, lkVal, lkPrev, snap, committed, bare, numIn,
                   numOut, resolved, locked, sample, bar, symbol, feed,
                   dashboard, holdings, outstanding, dashboard_signature,
                   snapshot, outcome, replay_series, replay_idx, applied,
                   stress_seen, api_calls, api_errors, api, heap, consumer,
                   perf_real, candle_api>>

\* ------------------------------------------------------------------ _rt_loop

\* while not self._rt_stop.is_set(): the flag is set (seen by the outer loop,
\* or by the inner loop, which leaves the connection and comes to the outer
\* test): the worker ends.
RtStop ==
    /\ pc["rt"] \in {"top", "recv"}
    /\ stop["rt"]
    /\ pc' = [pc EXCEPT !["rt"] = "ended"]
    /\ UNCHANGED <<stocks, stock_by_code, candles, candle_idx,
                   candle_req_queue, candle_req_set, stress_idx,
                   rt_connected, rt_subscribed, account_no, exec_connected,
                   stop, stress_override, stress_enabled, stress_cycle,
                   market_open, srvSub, ecRaw, ecCodes, ecRet, ecI, subCodes,
                   subOk, bgStage, bgCode, bgTargets, bgK, bgSeries, bgIdx,
                   bgResp, grid, gridOf, whole, ecClean, ecEnq, ecSub, rtSub,
                   lock, lkCode, lkVal, lkPrev, snap, committed, bare, numIn,
                   numOut, resolved, locked, sample, bar, symbol, feed,
                   dashboard, holdings, outstanding, dashboard_signature,
                   snapshot, outcome, replay_series, replay_idx, applied,
                   stress_seen, api_calls, api_errors, api, heap, consumer,
                   perf_real, candle_api>>

\* The loop test passes: websockets.connect(uri) is attempted.
RtTop ==
    /\ pc["rt"] = "top"
    /\ ~stop["rt"]
    /\ pc' = [pc EXCEPT !["rt"] = "connecting"]
    /\ UNCHANGED <<stocks, stock_by_code, candles, candle_idx,
                   candle_req_queue, candle_req_set, stress_idx,
                   rt_connected, rt_subscribed, account_no, exec_connected,
                   stop, stress_override, stress_enabled, stress_cycle,
                   market_open, srvSub, ecRaw, ecCodes, ecRet, ecI, subCodes,
                   subOk, bgStage, bgCode, bgTargets, bgK, bgSeries, bgIdx,
                   bgResp, grid, gridOf, whole, ecClean, ecEnq, ecSub, rtSub,
                   lock, lkCode, lkVal, lkPrev, snap, committed, bare, numIn,
                   numOut, resolved, locked, sample, bar, symbol, feed,
                   dashboard, holdings, outstanding, dashboard_signature,
                   snapshot, outcome, replay_series, replay_idx, applied,
                   stress_seen, api_calls, api_errors, api, heap, consumer,
                   perf_real, candle_api>>

\* The connect succeeds: self._rt_connected = True.
RtConnect ==
    /\ pc["rt"] = "connecting"
    /\ rt_connected' = TRUE
    /\ rtSub' = NoCall
    /\ pc' = [pc EXCEPT !["rt"] = "sub_begin"]
    /\ UNCHANGED <<stocks, stock_by_code, candles, candle_idx,
                   candle_req_queue, candle_req_set, stress_idx,
                   rt_subscribed, account_no, exec_connected, stop,
                   stress_override, stress_enabled, stress_cycle,
                   market_open, srvSub, ecRaw, ecCodes, ecRet, ecI, subCodes,
                   subOk, bgStage, bgCode, bgTargets, bgK, bgSeries, bgIdx,
                   bgResp, grid, gridOf, whole, ecClean, ecEnq, ecSub, lock,
                   lkCode, lkVal, lkPrev, snap, committed, bare, numIn,
                   numOut, resolved, locked, sample, bar, symbol, feed,
                   dashboard, holdings, outstanding, dashboard_signature,
                   snapshot, outcome, replay_series, replay_idx, applied,
                   stress_seen, api_calls, api_errors, api, heap, consumer,
                   perf_real, candle_api>>

\* Variant: a subscription call after the connect that is not forced.
Unforced == FALSE

\* The force argument of the subscription call that follows the connect.
RtForce == TRUE

\* self._subscribe_realtime(force=True) right after the connect.
RtSubscribe ==
    /\ SubBegin("rt", RtForce)
    /\ rtSub' = SubCall("rt", RtForce)
    /\ UNCHANGED <<stocks, stock_by_code, candles, candle_idx,
                   candle_req_queue, candle_req_set, stress_idx,
                   rt_connected, account_no, exec_connected, stop,
                   stress_override, stress_enabled, stress_cycle,
                   market_open, srvSub, ecRaw, ecCodes, ecI, subOk, bgStage,
                   bgCode, bgTargets, bgK, bgSeries, bgIdx, bgResp, grid,
                   gridOf, whole, ecClean, ecEnq, ecSub, lock, lkCode, lkVal,
                   lkPrev, snap, committed, bare, numIn, numOut, resolved,
                   locked, sample, bar, symbol, feed, dashboard, holdings,
                   outstanding, dashboard_signature, snapshot, outcome,
                   replay_series, replay_idx, applied, stress_seen,
                   api_calls, api_errors, api, heap, consumer, perf_real,
                   candle_api>>

\* Where an exception raised inside the try block of _rt_loop goes: the
\* except clause.
RtHandler == "except"

\* websockets.connect(uri) raises: the connect failed.
RtConnectFails ==
    /\ pc["rt"] = "connecting"
    /\ pc' = [pc EXCEPT !["rt"] = RtHandler]
    /\ UNCHANGED <<stocks, stock_by_code, candles, candle_idx,
                   candle_req_queue, candle_req_set, stress_idx,
                   rt_connected, rt_subscribed, account_no, exec_connected,
                   stop, stress_override, stress_enabled, stress_cycle,
                   market_open, srvSub, ecRaw, ecCodes, ecRet, ecI, subCodes,
                   subOk, bgStage, bgCode, bgTargets, bgK, bgSeries, bgIdx,
                   bgResp, grid, gridOf, whole, ecClean, ecEnq, ecSub, rtSub,
                   lock, lkCode, lkVal, lkPrev, snap, committed, bare, numIn,
                   numOut, resolved, locked, sample, bar, symbol, feed,
                   dashboard, holdings, outstanding, dashboard_signature,
                   snapshot, outcome, replay_series, replay_idx, applied,
                   stress_seen, api_calls, api_errors, api, heap, consumer,
                   perf_real, candle_api>>

\* An exception while connected: recv raises or the connection is closed,
\* json.loads raises on the frame, _on_realtime raises.
RtRaise ==
    /\ pc["rt"] = "recv"
    /\ pc' = [pc EXCEPT !["rt"] = RtHandler]
    /\ UNCHANGED <<stocks, stock_by_code, candles, candle_idx,
                   candle_req_queue, candle_req_set, stress_idx,
                   rt_connected, rt_subscribed, account_no, exec_connected,
                   stop, stress_override, stress_enabled, stress_cycle,
                   market_open, srvSub, ecRaw, ecCodes, ecRet, ecI, subCodes,
                   subOk, bgStage, bgCode, bgTargets, bgK, bgSeries, bgIdx,
                   bgResp, grid, gridOf, whole, ecClean, ecEnq, ecSub, rtSub,
                   lock, lkCode, lkVal, lkPrev, snap, committed, bare, numIn,
                   numOut, resolved, locked, sample, bar, symbol, feed,
                   dashboard, holdings, outstanding, dashboard_signature,
                   snapshot, outcome, replay_series, replay_idx, applied,
                   stress_seen, api_calls, api_errors, api, heap, consumer,
                   perf_real, candle_api>>

\* except Exception: self._rt_connected = False
RtLost ==
    /\ pc["rt"] = "except"
    /\ rt_connected' = FALSE
    /\ pc' = [pc EXCEPT !["rt"] = "except2"]
    /\ UNCHANGED <<stocks, stock_by_code, candles, candle_idx,
                   candle_req_queue, candle_req_set, stress_idx,
                   rt_subscribed, account_no, exec_connected, stop,
                   stress_override, stress_enabled, stress_cycle,
                   market_open, srvSub, ecRaw, ecCodes, ecRet, ecI, subCodes,
                   subOk, bgStage, bgCode, bgTargets, bgK, bgSeries, bgIdx,
                   bgResp, grid, gridOf, whole, ecClean, ecEnq, ecSub, rtSub,
                   lock, lkCode, lkVal, lkPrev, snap, committed, bare, numIn,
                   numOut, resolved, locked, sample, bar, symbol, feed,
                   dashboard, holdings, outstanding, dashboard_signature,
                   snapshot, outcome, replay_series, replay_idx, applied,
                   stress_seen, api_calls, api_errors, api, heap, consumer,
                   perf_real, candle_api>>

\* What the except clause leaves in self._rt_subscribed.
RtLostSubscribed == FALSE

\* self._rt_subscribed = False; then asyncio.sleep(1.5) begins.
RtUnsub ==
    /\ pc["rt"] = "except2"
    /\ rt_subscribed' = RtLostSubscribed
    /\ pc' = [pc EXCEPT !["rt"] = "backoff"]
    /\ UNCHANGED <<stocks, stock_by_code, candles, candle_idx,
                   candle_req_queue, candle_req_set, stress_idx,
                   rt_connected, account_no, exec_connected, stop,
                   stress_override, stress_enabled, stress_cycle,
                   market_open, srvSub, ecRaw, ecCodes, ecRet, ecI, subCodes,
                   subOk, bgStage, bgCode, bgTargets, bgK, bgSeries, bgIdx,
                   bgResp, grid, gridOf, whole, ecClean, ecEnq, ecSub, rtSub,
                   lock, lkCode, lkVal, lkPrev, snap, committed, bare, numIn,
                   numOut, resolved, locked, sample, bar, symbol, feed,
                   dashboard, holdings, outstanding, dashboard_signature,
                   snapshot, outcome, replay_series, replay_idx, applied,
                   stress_seen, api_calls, api_errors, api, heap, consumer,
                   perf_real, candle_api>>

\* Variant: a worker that gives up after the backoff.
GivesUp == "ended"

\* Where the worker is after the backoff: at the loop test.
RtAfterBackoff == "top"

\* The backoff is over.
RtBackoff ==
    /\ pc["rt"] = "backoff"
    /\ pc' = [pc EXCEPT !["rt"] = RtAfterBackoff]
    /\ UNCHANGED <<stocks, stock_by_code, candles, candle_idx,
                   candle_req_queue, candle_req_set, stress_idx,
                   rt_connected, rt_subscribed, account_no, exec_connected,
                   stop, stress_override, stress_enabled, stress_cycle,
                   market_open, srvSub, ecRaw, ecCodes, ecRet, ecI, subCodes,
                   subOk, bgStage, bgCode, bgTargets, bgK, bgSeries, bgIdx,
                   bgResp, grid, gridOf, whole, ecClean, ecEnq, ecSub, rtSub,
                   lock, lkCode, lkVal, lkPrev, snap, committed, bare, numIn,
                   numOut, resolved, locked, sample, bar, symbol, feed,
                   dashboard, holdings, outstanding, dashboard_signature,
                   snapshot, outcome, replay_series, replay_idx, applied,
                   stress_seen, api_calls, api_errors, api, heap, consumer,
                   perf_real, candle_api>>

\* ---------------------------------------------------------------- _exec_loop

\* while not self._exec_stop.is_set(): the flag is set (seen by the outer
\* loop, or by the inner loop after a receive timeout or after an event was
\* handled): the worker ends.
ExStop ==
    /\ pc["ex"] \in {"top", "recv", "test"}
    /\ stop["ex"]
    /\ pc' = [pc EXCEPT !["ex"] = "ended"]
    /\ UNCHANGED <<stocks, stock_by_code, candles, candle_idx,
                   candle_req_queue, candle_req_set, stress_idx,
                   rt_connected, rt_subscribed, account_no, exec_connected,
                   stop, stress_override, stress_enabled, stress_cycle,
                   market_open, srvSub, ecRaw, ecCodes, ecRet, ecI, subCodes,
                   subOk, bgStage, bgCode, bgTargets, bgK, bgSeries, bgIdx,
                   bgResp, grid, gridOf, whole, ecClean, ecEnq, ecSub, rtSub,
                   lock, lkCode, lkVal, lkPrev, snap, committed, bare, numIn,
                   numOut, resolved, locked, sample, bar, symbol, feed,
                   dashboard, holdings, outstanding, dashboard_signature,
                   snapshot, outcome, replay_series, replay_idx, applied,
                   stress_seen, api_calls, api_errors, api, heap, consumer,
                   perf_real, candle_api>>

ExTop ==
    /\ pc["ex"] = "top"
    /\ ~stop["ex"]
    /\ pc' = [pc EXCEPT !["ex"] = "connecting"]
    /\ UNCHANGED <<stocks, stock_by_code, candles, candle_idx,
                   candle_req_queue, candle_req_set, stress_idx,
                   rt_connected, rt_subscribed, account_no, exec_connected,
                   stop, stress_override, stress_enabled, stress_cycle,
                   market_open, srvSub, ecRaw, ecCodes, ecRet, ecI, subCodes,
                   subOk, bgStage, bgCode, bgTargets, bgK, bgSeries, bgIdx,
                   bgResp, grid, gridOf, whole, ecClean, ecEnq, ecSub, rtSub,
                   lock, lkCode, lkVal, lkPrev, snap, committed, bare, numIn,
                   numOut, resolved, locked, sample, bar, symbol, feed,
                   dashboard, holdings, outstanding, dashboard_signature,
                   snapshot, outcome, replay_series, replay_idx, applied,
                   stress_seen, api_calls, api_errors, api, heap, consumer,
                   perf_real, candle_api>>

\* The connect succeeds: self._exec_connected = True.
ExConnect ==
    /\ pc["ex"] = "connecting"
    /\ exec_connected' = TRUE
    /\ pc' = [pc EXCEPT !["ex"] = "recv"]
    /\ UNCHANGED <<stocks, stock_by_code, candles, candle_idx,
                   candle_req_queue, candle_req_set, stress_idx,
                   rt_connected, rt_subscribed, account_no, stop,
                   stress_override, stress_enabled, stress_cycle,
                   market_open, srvSub, ecRaw, ecCodes, ecRet, ecI, subCodes,
                   subOk, bgStage, bgCode, bgTargets, bgK, bgSeries, bgIdx,
                   bgResp, grid, gridOf, whole, ecClean, ecEnq, ecSub, rtSub,
                   lock, lkCode, lkVal, lkPrev, snap, committed, bare, numIn,
                   numOut, resolved, locked, sample, bar, symbol, feed,
                   dashboard, holdings, outstanding, dashboard_signature,
                   snapshot, outcome, replay_series, replay_idx, applied,
                   stress_seen, api_calls, api_errors, api, heap, consumer,
                   perf_real, candle_api>>

\* An "order" or "balance" event: _refresh_dashboard(force=True) sends its
\* request.
ExEvent ==
    /\ pc["ex"] = "recv"
    /\ pc' = [pc EXCEPT !["ex"] = "refresh"]
    /\ UNCHANGED <<stocks, stock_by_code, candles, candle_idx,
                   candle_req_queue, candle_req_set, stress_idx,
                   rt_connected, rt_subscribed, account_no, exec_connected,
                   stop, stress_override, stress_enabled, stress_cycle,
                   market_open, srvSub, ecRaw, ecCodes, ecRet, ecI, subCodes,
                   subOk, bgStage, bgCode, bgTargets, bgK, bgSeries, bgIdx,
                   bgResp, grid, gridOf, whole, ecClean, ecEnq, ecSub, rtSub,
                   lock, lkCode, lkVal, lkPrev, snap, committed, bare, numIn,
                   numOut, resolved, locked, sample, bar, symbol, feed,
                   dashboard, holdings, outstanding, dashboard_signature,
                   snapshot, outcome, replay_series, replay_idx, applied,
                   stress_seen, api_calls, api_errors, api, heap, consumer,
                   perf_real, candle_api>>

\* The forced refresh is answered.
ExRefreshDone ==
    /\ pc["ex"] = "refresh"
    /\ \E resp \in DashResponses : RefreshDashboard(resp)
    /\ pc' = [pc EXCEPT !["ex"] = "test"]
    /\ UNCHANGED <<stocks, stock_by_code, candles, candle_idx,
                   candle_req_queue, candle_req_set, stress_idx,
                   rt_connected, rt_subscribed, exec_connected, stop,
                   stress_override, stress_enabled, stress_cycle,
                   market_open, srvSub, ecRaw, ecCodes, ecRet, ecI, subCodes,
                   subOk, bgStage, bgCode, bgTargets, bgK, bgSeries, bgIdx,
                   bgResp, grid, gridOf, whole, ecClean, ecEnq, ecSub, rtSub,
                   lock, lkCode, lkVal, lkPrev, snap, committed, bare, numIn,
                   numOut, resolved, locked, sample, bar, symbol, feed,
                   dashboard, holdings, outstanding, dashboard_signature,
                   snapshot, outcome, replay_series, replay_idx, applied,
                   stress_seen, api_calls, api_errors, api, heap, consumer,
                   perf_real, candle_api>>

\* The inner loop test after an event: the flag is clear, the next receive.
ExLoop ==
    /\ pc["ex"] = "test"
    /\ ~stop["ex"]
    /\ pc' = [pc EXCEPT !["ex"] = "recv"]
    /\ UNCHANGED <<stocks, stock_by_code, candles, candle_idx,
                   candle_req_queue, candle_req_set, stress_idx,
                   rt_connected, rt_subscribed, account_no, exec_connected,
                   stop, stress_override, stress_enabled, stress_cycle,
                   market_open, srvSub, ecRaw, ecCodes, ecRet, ecI, subCodes,
                   subOk, bgStage, bgCode, bgTargets, bgK, bgSeries, bgIdx,
                   bgResp, grid, gridOf, whole, ecClean, ecEnq, ecSub, rtSub,
                   lock, lkCode, lkVal, lkPrev, snap, committed, bare, numIn,
                   numOut, resolved, locked, sample, bar, symbol, feed,
                   dashboard, holdings, outstanding, dashboard_signature,
                   snapshot, outcome, replay_series, replay_idx, applied,
                   stress_seen, api_calls, api_errors, api, heap, consumer,
                   perf_real, candle_api>>

\* Where an exception raised inside the try block of _exec_loop goes.
ExHandler == "except"

\* The connect fails, recv raises or the connection is closed, json.loads
\* raises, the event is no dict, _refresh_dashboard raises.
ExRaise ==
    /\ pc["ex"] \in {"connecting", "recv", "refresh"}
    /\ pc' = [pc EXCEPT !["ex"] = ExHandler]
    /\ UNCHANGED <<stocks, stock_by_code, candles, candle_idx,
                   candle_req_queue, candle_req_set, stress_idx,
                   rt_connected, rt_subscribed, account_no, exec_connected,
                   stop, stress_override, stress_enabled, stress_cycle,
                   market_open, srvSub, ecRaw, ecCodes, ecRet, ecI, subCodes,
                   subOk, bgStage, bgCode, bgTargets, bgK, bgSeries, bgIdx,
                   bgResp, grid, gridOf, whole, ecClean, ecEnq, ecSub, rtSub,
                   lock, lkCode, lkVal, lkPrev, snap, committed, bare, numIn,
                   numOut, resolved, locked, sample, bar, symbol, feed,
                   dashboard, holdings, outstanding, dashboard_signature,
                   snapshot, outcome, replay_series, replay_idx, applied,
                   stress_seen, api_calls, api_errors, api, heap, consumer,
                   perf_real, candle_api>>

\* except Exception: self._exec_connected = False; asyncio.sleep(2.0) begins.
ExLost ==
    /\ pc["ex"] = "except"
    /\ exec_connected' = FALSE
    /\ pc' = [pc EXCEPT !["ex"] = "backoff"]
    /\ UNCHANGED <<stocks, stock_by_code, candles, candle_idx,
                   candle_req_queue, candle_req_set, stress_idx,
                   rt_connected, rt_subscribed, account_no, stop,
                   stress_override, stress_enabled, stress_cycle,
                   market_open, srvSub, ecRaw, ecCodes, ecRet, ecI, subCodes,
                   subOk, bgStage, bgCode, bgTargets, bgK, bgSeries, bgIdx,
                   bgResp, grid, gridOf, whole, ecClean, ecEnq, ecSub, rtSub,
                   lock, lkCode, lkVal, lkPrev, snap, committed, bare, numIn,
                   numOut, resolved, locked, sample, bar, symbol, feed,
                   dashboard, holdings, outstanding, dashboard_signature,
                   snapshot, outcome, replay_series, replay_idx, applied,
                   stress_seen, api_calls, api_errors, api, heap, consumer,
                   perf_real, candle_api>>

ExBackoff ==
    /\ pc["ex"] = "backoff"
    /\ pc' = [pc EXCEPT !["ex"] = "top"]
    /\ UNCHANGED <<stocks, stock_by_code, candles, candle_idx,
                   candle_req_queue, candle_req_set, stress_idx,
                   rt_connected, rt_subscribed, account_no, exec_connected,
                   stop, stress_override, stress_enabled, stress_cycle,
                   market_open, srvSub, ecRaw, ecCodes, ecRet, ecI, subCodes,
                   subOk, bgStage, bgCode, bgTargets, bgK, bgSeries, bgIdx,
                   bgResp, grid, gridOf, whole, ecClean, ecEnq, ecSub, rtSub,
                   lock, lkCode, lkVal, lkPrev, snap, committed, bare, numIn,
                   numOut, resolved, locked, sample, bar, symbol, feed,
                   dashboard, holdings, outstanding, dashboard_signature,
                   snapshot, outcome, replay_series, replay_idx, applied,
                   stress_seen, api_calls, api_errors, api, heap, consumer,
                   perf_real, candle_api>>

\* --------------------------------------------------------------------- close

\* Variant: a close() that leaves the stop flag of the execution feed
\* worker alone.
ForgetsExec == <<"bg", "rt", "rt">>

\* The stop flags in the order close() sets them.
CloseOrder == <<"bg", "rt", "ex">>

\* close() is called (atexit, or main on its way out).
CloseCall ==
    /\ pc[Closer] = "idle"
    /\ pc' = [pc EXCEPT ![Closer] = "set1"]
    /\ UNCHANGED <<stocks, stock_by_code, candles, candle_idx,
                   candle_req_queue, candle_req_set, stress_idx,
                   rt_connected, rt_subscribed, account_no, exec_connected,
                   stop, stress_override, stress_enabled, stress_cycle,
                   market_open, srvSub, ecRaw, ecCodes, ecRet, ecI, subCodes,
                   subOk, bgStage, bgCode, bgTargets, bgK, bgSeries, bgIdx,
                   bgResp, grid, gridOf, whole, ecClean, ecEnq, ecSub, rtSub,
                   lock, lkCode, lkVal, lkPrev, snap, committed, bare, numIn,
                   numOut, resolved, locked, sample, bar, symbol, feed,
                   dashboard, holdings, outstanding, dashboard_signature,
                   snapshot, outcome, replay_series, replay_idx, applied,
                   stress_seen, api_calls, api_errors, api, heap, consumer,
                   perf_real, candle_api>>

\* self._bg_stop.set(); self._rt_stop.set(); self._exec_stop.set()
CloseSet(k) ==
    /\ pc[Closer] = <<"set1", "set2", "set3">>[k]
    /\ stop' = [stop EXCEPT ![CloseOrder[k]] = TRUE]
    /\ pc' = [pc EXCEPT ![Closer] = <<"set2", "set3", "unsub">>[k]]
    /\ UNCHANGED <<stocks, stock_by_code, candles, candle_idx,
                   candle_req_queue, candle_req_set, stress_idx,
                   rt_connected, rt_subscribed, account_no, exec_connected,
                   stress_override, stress_enabled, stress_cycle,
                   market_open, srvSub, ecRaw, ecCodes, ecRet, ecI, subCodes,
                   subOk, bgStage, bgCode, bgTargets, bgK, bgSeries, bgIdx,
                   bgResp, grid, gridOf, whole, ecClean, ecEnq, ecSub, rtSub,
                   lock, lkCode, lkVal, lkPrev, snap, committed, bare, numIn,
                   numOut, resolved, locked, sample, bar, symbol, feed,
                   dashboard, holdings, outstanding, dashboard_signature,
                   snapshot, outcome, replay_series, replay_idx, applied,
                   stress_seen, api_calls, api_errors, api, heap, consumer,
                   perf_real, candle_api>>

\* _api_get("/api/realtime/unsubscribe"): taken by the server, or failed.
CloseUnsub ==
    /\ pc[Closer] = "unsub"
    /\ \E ok \in BOOLEAN : srvSub' = IF ok THEN NoSub ELSE srvSub
    /\ pc' = [pc EXCEPT ![Closer] = "closed"]
    /\ UNCHANGED <<stocks, stock_by_code, candles, candle_idx,
                   candle_req_queue, candle_req_set, stress_idx,
                   rt_connected, rt_subscribed, account_no, exec_connected,
                   stop, stress_override, stress_enabled, stress_cycle,
                   market_open, ecRaw, ecCodes, ecRet, ecI, subCodes, subOk,
                   bgStage, bgCode, bgTargets, bgK, bgSeries, bgIdx, bgResp,
                   grid, gridOf, whole, ecClean, ecEnq, ecSub, rtSub, lock,
                   lkCode, lkVal, lkPrev, snap, committed, bare, numIn,
                   numOut, resolved, locked, sample, bar, symbol, feed,
                   dashboard, holdings, outstanding, dashboard_signature,
                   snapshot, outcome, replay_series, replay_idx, applied,
                   stress_seen, api_calls, api_errors, api, heap, consumer,
                   perf_real, candle_api>>

\* ----------------------------------------------------------------- consumer

\* get_universe_grid(): one lock section; where frs ties the rows keep the
\* order of stocks.
GetUniverseGrid ==
    /\ grid' = CodesOf(stocks)
    /\ gridOf' = [universe |-> whole,
                  between  |-> \E r \in Reloaders : pc[r] = "symbols"]
    /\ UNCHANGED <<stocks, stock_by_code, candles, candle_idx,
                   candle_req_queue, candle_req_set, stress_idx,
                   rt_connected, rt_subscribed, account_no, exec_connected,
                   stop, stress_override, stress_enabled, stress_cycle,
                   market_open, srvSub, pc, ecRaw, ecCodes, ecRet, ecI,
                   subCodes, subOk, bgStage, bgCode, bgTargets, bgK,
                   bgSeries, bgIdx, bgResp, whole, ecClean, ecEnq, ecSub,
                   rtSub, lock, lkCode, lkVal, lkPrev, snap, committed, bare,
                   numIn, numOut, resolved, locked, sample, bar, symbol,
                   feed, dashboard, holdings, outstanding,
                   dashboard_signature, snapshot, outcome, replay_series,
                   replay_idx, applied, stress_seen, api_calls, api_errors,
                   api, heap, consumer, perf_real, candle_api>>

\* Arguments the chart panel passes to generate_candle.
StockIdxs == {-1, 0, 1, 2}

\* ----------------------------------------------------------- specifications

\* execute_condition up to the check of the tick feed.
ReloadSteps(r) ==
    \/ EcCall(r) \/ EcResponse(r)
    \/ LoadStrip(r) \/ LoadSwap(r)
    \/ LoadEnqueue(r) \/ LoadCheckFeed(r)

\* The forced re-subscription at the end of a reload.
ReloadSubscribe(r) == LoadSubscribe(r) \/ SubSend(r) \/ SubDone(r)

Reload(r) == ReloadSteps(r) \/ ReloadSubscribe(r)

CandleFetch == BgCandlePop \/ BgCandleStore \/ BgIterEnd

StressTick ==
    \/ BgStressBegin \/ BgStressRead \/ BgStressIdx
    \/ BgStressWrite \/ BgStressApply

\* The steps the tick feed worker takes by itself: the loop test, the
\* connect attempt coming to its end, the subscription call, the except
\* clause, the backoff.
TickFeedProgress ==
    \/ RtTop \/ RtConnect \/ RtConnectFails
    \/ RtSubscribe \/ SubSend("rt") \/ SubDone("rt")
    \/ RtLost \/ RtUnsub \/ RtBackoff \/ RtStop

TickFeed == TickFeedProgress \/ RtRaise

\* The steps the execution feed worker takes by itself.
ExecFeedProgress ==
    \/ ExTop \/ ExConnect \/ ExRefreshDone \/ ExLoop
    \/ ExLost \/ ExBackoff \/ ExStop

ExecFeed == ExecFeedProgress \/ ExEvent \/ ExRaise

Close == CloseCall \/ (\E k \in 1..3 : CloseSet(k)) \/ CloseUnsub

\* The reload path against the consumer: two execute_condition threads and
\* get_universe_grid.
Next ==
    \/ \E r \in Reloaders : Reload(r)
    \/ GetUniverseGrid

Spec == InitServing /\ [][Next]_vars

\* The reload path against the candle cache: one execute_condition thread,
\* the candle prefetch and the stress tick of the maintenance loop; the
\* tick feed not connected.
NextCache ==
    \/ ReloadSteps("r1")
    \/ CandleFetch
    \/ StressTick

InitCache ==
    /\ InitAdapter("loaded", Account, TRUE, FALSE, FALSE)
    /\ InitThreads(FALSE)
    /\ market_open = FALSE

SpecCache == InitCache /\ [][NextCache]_vars

\* One execute_condition thread from its call to its return, the caches
\* filled by the candle prefetch and the stress tick; the tick feed
\* connected or not, a session or none.
NextInstall ==
    \/ Reload("r1")
    \/ CandleFetch
    \/ StressTick

InitInstall ==
    /\ \E conn \in BOOLEAN :
          /\ \E acct \in {"", Account} :
                InitAdapter("loaded", acct, TRUE, FALSE, conn)
          /\ InitThreads(conn)
    /\ market_open = FALSE

SpecInstall == InitInstall /\ [][NextInstall]_vars

MaintenanceTasks ==
    \/ BgStop \/ BgLogin \/ BgLoginDone \/ BgSubHealth
    \/ BgSubscribe \/ SubSend("bg") \/ SubDone("bg")
    \/ BgDash \/ BgDashResponse \/ BgDashDone

\* The tick feed worker against the maintenance loop and close().
NextFeed ==
    \/ TickFeed
    \/ MaintenanceTasks
    \/ BgCandlePop \/ BgCandleStore \/ BgIterEnd
    \/ Close

SpecFeed == Init /\ [][NextFeed]_vars

\* The steps the maintenance loop takes by itself when no candle request
\* is pending.
MaintenanceProgress ==
    \/ MaintenanceTasks
    \/ BgCandlePop \/ BgIterEnd
    \/ BgResume

\* The three workers, their tasks raising, against close(): the adapter as
\* __init__ returns it with a session and the placeholder rows, the market
\* open.
NextWorkers ==
    \/ TickFeed
    \/ ExecFeed
    \/ MaintenanceProgress
    \/ BgRaise
    \/ Close

InitWorkers ==
    /\ InitAdapter("none", Account, TRUE, FALSE, FALSE)
    /\ market_open = TRUE
    /\ InitThreads(FALSE)

SpecWorkers == InitWorkers /\ [][NextWorkers]_vars

\* The three workers scheduled: a step a worker can take by itself is taken.
FairWorkers ==
    /\ SpecWorkers
    /\ WF_vars(TickFeedProgress)
    /\ WF_vars(ExecFeedProgress)
    /\ WF_vars(MaintenanceProgress)

\* The tick feed worker scheduled: a step it can take by itself is taken.
FairFeed == SpecFeed /\ WF_vars(TickFeedProgress)

\* The tick feed worker against a reload and close().
NextConnect ==
    \/ TickFeed
    \/ Reload("r1")
    \/ Close

SpecConnect == Init /\ [][NextConnect]_vars

\* ------------------------------------------------------------------ claims

\* The codes of a universe that are no placeholder codes.
RealCodes(codes) == SelectSeq(codes, LAMBDA c : c \notin Range(PlaceholderCodes))

\* C1: under any interleaving of get_universe_grid() with running reloads,
\* the grid returned holds the codes of one universe only: the one installed
\* when the grid was taken (the old one until the second lock section of a
\* reload, the new one from it on), with or without its placeholder rows,
\* and never codes of two universes.
GridOfOneUniverse ==
    grid # NoGrid =>
       \/ Range(grid) = Range(gridOf.universe)
       \/ Range(grid) = Range(RealCodes(gridOf.universe))

\* C1 witness: a grid with rows, taken while a reload was between its two
\* lock sections.
GridTakenMidReload ==
    /\ grid # NoGrid /\ grid # <<>>
    /\ gridOf.between

\* A search response the claim calls failed: not Success, a payload that is
\* no dict, or no code that is not blank.
FailedSearch(rs) ==
    \/ ~rs.success
    \/ ~rs.isdict
    \/ \A i \in DOMAIN rs.codes : rs.codes[i] = Blank

\* C2: an execute_condition whose search failed, gave a payload that is no
\* dict, or gave zero codes returns false, and neither its call nor its
\* return changes the symbol table, the code index, the candle cache, the
\* candle cursors, the stress cursors, the prefetch queue and set, or the
\* subscribed flag.
FailedSearchLeavesState ==
    [][\A r \in Reloaders :
         /\ (pc[r] = "idle" /\ pc'[r] = "search") =>
               UNCHANGED <<stocks, stock_by_code, candles, candle_idx,
                           stress_idx, candle_req_queue, candle_req_set,
                           rt_subscribed>>
         /\ (pc[r] = "search" /\ pc'[r] # "search" /\ FailedSearch(ecRaw'[r])) =>
               /\ pc'[r] = "idle"
               /\ ecRet'[r] = False
               /\ UNCHANGED <<stocks, stock_by_code, candles, candle_idx,
                              stress_idx, candle_req_queue, candle_req_set,
                              rt_subscribed>>]_vars

\* C2 witness: a search that gave zero codes has returned false, with a
\* universe loaded, codes pending and the subscribed flag set.
FailedSearchReturned ==
    \E r \in Reloaders :
       /\ pc[r] = "idle" /\ ecRet[r] = False
       /\ ecRaw[r].success /\ ecRaw[r].isdict
       /\ stocks # <<>> /\ candle_req_queue # <<>> /\ rt_subscribed

\* A search response that returned at least one code.
HasCodes(rs) ==
    /\ rs.success /\ rs.isdict
    /\ \E i \in DOMAIN rs.codes : rs.codes[i] # Blank

\* t holds the distinct entries of codes in the order of their first
\* occurrence, cut to the first n.
FirstDistinct(t, codes) ==
    /\ Len(t) = Min(n, Cardinality(Range(codes)))
    /\ \A i \in DOMAIN t :
          /\ \A m \in 1..(i - 1) : t[m] # t[i]
          /\ \E j \in DOMAIN codes :
                /\ codes[j] = t[i]
                /\ \A k \in 1..(j - 1) : \E m \in 1..(i - 1) : t[m] = codes[k]

\* What holds once the reload of r has returned, no other reload having run
\* since it began.
InstalledBy(r) ==
    /\ FirstDistinct(CodesOf(stocks), StripCodes(ecRaw[r].codes))
    /\ \A i \in DOMAIN stocks : ~stocks[i].placeholder
    /\ DOMAIN stock_by_code = Range(CodesOf(stocks))
    /\ \A c \in DOMAIN stock_by_code : stock_by_code[c].code = c
    /\ ecEnq[r] = CodesOf(stocks)
    /\ ecSub[r].call.made = ecSub[r].connected
    /\ ecSub[r].call.made => ecSub[r].call.force

\* C3: an execute_condition whose search returned at least one code returns
\* true and never false; once it has returned with no other reload running,
\* the symbol table holds the returned codes, first occurrences in order,
\* cut to the first n, every one of them was passed to the prefetch queue
\* once, and _subscribe_realtime(force=True) was called iff the tick feed
\* was connected; the second lock section leaves the candle cache, the
\* candle cursors and the stress cursors empty; after each enqueue call the
\* code is pending exactly once.
ReloadInstallsUniverse ==
    /\ [](\A r \in Reloaders :
            /\ (pc[r] = "idle" /\ HasCodes(ecRaw[r])) => ecRet[r] = True
            /\ ecRet[r] = True => HasCodes(ecRaw[r])
            /\ (pc[r] = "idle" /\ HasCodes(ecRaw[r]) /\ ecClean[r]) => InstalledBy(r))
    /\ [][\A r \in Reloaders :
            /\ (pc[r] = "symbols" /\ pc'[r] = "enqueue") =>
                  /\ candles' = EmptyMap
                  /\ candle_idx' = EmptyMap
                  /\ stress_idx' = EmptyMap
            /\ (pc[r] = "enqueue" /\ ecI'[r] = ecI[r] + 1) =>
                  /\ ecCodes[r][ecI[r]] \in candle_req_set'
                  /\ Count(candle_req_queue', ecCodes[r][ecI[r]]) = 1]_vars

\* C3 witness: a reload whose search returned codes with a blank and a
\* repeat, more than n of them distinct, has returned true after it sent
\* the forced subscribe request; the prefetch has run on since.
ReloadReturnedTrue ==
    /\ pc["r1"] = "idle" /\ ecRet["r1"] = True /\ ecClean["r1"]
    /\ Len(ecRaw["r1"].codes) > n + 1
    /\ CodesOf(stocks) = <<"B", "C">>
    /\ ecSub["r1"].call.sent
    /\ "B" \in DOMAIN candles

\* C4 as stated: once a reload has completed, the candle cache, the candle
\* cursors and the stress cursors hold entries only for codes of the
\* current universe.
CachesHoldCurrentCodesOnly ==
    (\E r \in Reloaders : pc[r] = "idle" /\ ecRet[r] = True) =>
       /\ DOMAIN candles \subseteq Range(CodesOf(stocks))
       /\ DOMAIN candle_idx \subseteq Range(CodesOf(stocks))
       /\ DOMAIN stress_idx \subseteq Range(CodesOf(stocks))

\* C8: the tick feed worker has no terminal failure state. It ends only with
\* its stop flag set; the except clause brings it to its backoff with the
\* connected and subscribed flags both false; every failure leads to the
\* backoff, and every backoff to the next connect attempt unless the stop
\* flag is set, however many failures went before.
FeedRetriesForever ==
    /\ [](pc["rt"] = "ended" => stop["rt"])
    /\ [][(pc["rt"] # "backoff" /\ pc'["rt"] = "backoff") =>
             (~rt_connected' /\ ~rt_subscribed')]_vars
    /\ (pc["rt"] = "except") ~> (pc["rt"] = "backoff")
    /\ (pc["rt"] = "backoff") ~> (pc["rt"] = "connecting" \/ stop["rt"])

\* C8 witness: the worker in its backoff after it lost a connection on
\* which it had sent its subscribe request, the stop flag clear.
FeedLostAndBackingOff ==
    /\ pc["rt"] = "backoff" /\ ~stop["rt"]
    /\ rtSub.sent
    /\ ~rt_connected

\* C9: every connect of the tick feed worker goes straight to
\* _subscribe_realtime(force=True): the worker receives no message before
\* that call was made, the call is forced, and with a session and a universe
\* it sends a subscribe request for the codes of the universe as it is then.
ConnectThenForcedSubscribe ==
    /\ [](pc["rt"] = "recv" => (rtSub.made /\ rtSub.force))
    /\ [][/\ (pc["rt"] = "connecting" /\ rt_connected' /\ ~rt_connected) =>
                (pc'["rt"] = "sub_begin" /\ ~rtSub'.made)
          /\ (pc["rt"] = "sub_begin" /\ pc'["rt"] # "sub_begin") =>
                /\ rtSub'.made /\ rtSub'.force
                /\ (account_no # "" /\ stocks # <<>>) =>
                      /\ pc'["rt"] = "sub_send"
                      /\ subCodes'["rt"] = CodesOf(stocks)]_vars

\* C9 witness: the worker receiving on a connection made after a reload, its
\* subscribe request sent for the codes of the reloaded universe.
FeedSubscribedReloaded ==
    /\ pc["rt"] = "recv"
    /\ rtSub.sent /\ rtSub.codes = <<"B", "C">>
    /\ srvSub = <<"B", "C">>

\* C10: a worker ends only from its loop test, with its stop flag set:
\* whatever is raised inside the loop body is caught and the loop goes on.
WorkersEndOnlyStopped ==
    /\ [](\A w \in Workers : pc[w] = "ended" => stop[w])
    /\ [][\A w \in Workers :
            (pc[w] # "ended" /\ pc'[w] = "ended") =>
               /\ stop[w]
               /\ pc[w] \in {"top", "pre", "recv", "test"}]_vars

\* C10 witness: all three workers past an exception (the maintenance loop in
\* its except clause, both feed workers in their backoff), no stop flag set.
AllWorkersCaught ==
    /\ pc["bg"] = "caught" /\ pc["rt"] = "backoff" /\ pc["ex"] = "backoff"
    /\ \A w \in Workers : ~stop[w]

\* C11: close() sets the three stop flags before it sends the unsubscribe
\* request, and once the flags are set every worker, wherever it is then,
\* comes to leave its loop and ends.
CloseEndsWorkers ==
    /\ [](pc[Closer] \in {"unsub", "closed"} => \A w \in Workers : stop[w])
    /\ [][srvSub' # srvSub /\ pc[Closer] = "unsub" => \A w \in Workers : stop[w]]_vars
    /\ (pc[Closer] = "closed") ~> (\A w \in Workers : pc[w] = "ended")

\* close() has returned while the tick feed worker was receiving, the
\* execution feed worker in its backoff and the maintenance loop inside a
\* task.
ClosedOnBusyWorkers ==
    /\ pc[Closer] = "closed"
    /\ pc["rt"] = "recv" /\ pc["ex"] = "backoff" /\ pc["bg"] = "dash"

\* ------------------------------------------------------- the lock, by steps
\*
\* The actions below take the lock sections of the three updaters of a
\* symbol record, of the candle prefetch and of two read methods apart:
\* entering the section, each access inside it and leaving it are steps of
\* their own, and so is every access made outside a section.

\* Variant: a lock that lets every thread in.
Unguarded(t) == TRUE

\* threading.RLock: free, or held by the thread itself.
CanEnter(t) == lock.owner \in {"", t}

\* with self._lock: (entering)
Enter(t) == lock' = [owner |-> t, depth |-> lock.depth + 1]

\* with self._lock: (leaving)
Leave(t) ==
    lock' = IF lock.depth <= 1 THEN FreeLock
            ELSE [lock EXCEPT !.depth = @ - 1]

\* Thread t reads or writes the adapter fields named: the record kept of the
\* accesses made without the lock.
Access(t, fields) == bare' = IF lock.owner = t THEN bare ELSE bare \cup fields

\* -------------------------------------------------------------- _on_realtime

\* Codes a tick message names: one of the universe, one outside it.
TickCodes == {"A", "C"}

\* A tick message arrives: code and price (0: the message has no price).
OnRealtime(code, v) ==
    /\ pc["rt"] = "recv"
    /\ Budget
    /\ lkCode' = [lkCode EXCEPT !["rt"] = code]
    /\ lkVal' = [lkVal EXCEPT !["rt"] = v]
    /\ pc' = [pc EXCEPT !["rt"] = "t_enter"]
    /\ UNCHANGED <<stocks, stock_by_code, candles, candle_idx,
                   candle_req_queue, candle_req_set, stress_idx,
                   rt_connected, rt_subscribed, account_no, exec_connected,
                   stop, stress_override, stress_enabled, stress_cycle,
                   market_open, srvSub, ecRaw, ecCodes, ecRet, ecI, subCodes,
                   subOk, bgStage, bgCode, bgTargets, bgK, bgSeries, bgIdx,
                   bgResp, grid, gridOf, whole, ecClean, ecEnq, ecSub, rtSub,
                   lock, lkPrev, snap, committed, bare, numIn, numOut,
                   resolved, locked, sample, bar, symbol, feed, dashboard,
                   holdings, outstanding, dashboard_signature, snapshot,
                   outcome, replay_series, replay_idx, applied, stress_seen,
                   api_calls, api_errors, api, heap, consumer, perf_real,
                   candle_api>>

TickEnter ==
    /\ pc["rt"] = "t_enter"
    /\ CanEnter("rt")
    /\ Enter("rt")
    /\ pc' = [pc EXCEPT !["rt"] = "t_find"]
    /\ UNCHANGED <<stocks, stock_by_code, candles, candle_idx,
                   candle_req_queue, candle_req_set, stress_idx,
                   rt_connected, rt_subscribed, account_no, exec_connected,
                   stop, stress_override, stress_enabled, stress_cycle,
                   market_open, srvSub, ecRaw, ecCodes, ecRet, ecI, subCodes,
                   subOk, bgStage, bgCode, bgTargets, bgK, bgSeries, bgIdx,
                   bgResp, grid, gridOf, whole, ecClean, ecEnq, ecSub, rtSub,
                   lkCode, lkVal, lkPrev, snap, committed, bare, numIn,
                   numOut, resolved, locked, sample, bar, symbol, feed,
                   dashboard, holdings, outstanding, dashboard_signature,
                   snapshot, outcome, replay_series, replay_idx, applied,
                   stress_seen, api_calls, api_errors, api, heap, consumer,
                   perf_real, candle_api>>

\* s = self._stock_by_code.get(code); if not s: return
TickFind ==
    /\ pc["rt"] = "t_find"
    /\ Access("rt", {"stock_by_code"})
    /\ pc' = [pc EXCEPT !["rt"] =
               IF lkCode["rt"] \in DOMAIN stock_by_code THEN "t_price" ELSE "t_leave"]
    /\ UNCHANGED <<stocks, stock_by_code, candles, candle_idx,
                   candle_req_queue, candle_req_set, stress_idx,
                   rt_connected, rt_subscribed, account_no, exec_connected,
                   stop, stress_override, stress_enabled, stress_cycle,
                   market_open, srvSub, ecRaw, ecCodes, ecRet, ecI, subCodes,
                   subOk, bgStage, bgCode, bgTargets, bgK, bgSeries, bgIdx,
                   bgResp, grid, gridOf, whole, ecClean, ecEnq, ecSub, rtSub,
                   lock, lkCode, lkVal, lkPrev, snap, committed, numIn,
                   numOut, resolved, locked, sample, bar, symbol, feed,
                   dashboard, holdings, outstanding, dashboard_signature,
                   snapshot, outcome, replay_series, replay_idx, applied,
                   stress_seen, api_calls, api_errors, api, heap, consumer,
                   perf_real, candle_api>>

\* if price > 0: s["price"] = price
TickPrice ==
    /\ pc["rt"] = "t_price"
    /\ Access("rt", {"stocks"})
    /\ LET s == stock_by_code[lkCode["rt"]]
       IN IF lkVal["rt"] > 0
          THEN SetRow(s.code, [s EXCEPT !.price = lkVal["rt"]])
          ELSE UNCHANGED <<stocks, stock_by_code>>
    /\ pc' = [pc EXCEPT !["rt"] = "t_score"]
    /\ UNCHANGED <<candles, candle_idx, candle_req_queue, candle_req_set,
                   stress_idx, rt_connected, rt_subscribed, account_no,
                   exec_connected, stop, stress_override, stress_enabled,
                   stress_cycle, market_open, srvSub, ecRaw, ecCodes, ecRet,
                   ecI, subCodes, subOk, bgStage, bgCode, bgTargets, bgK,
                   bgSeries, bgIdx, bgResp, grid, gridOf, whole, ecClean,
                   ecEnq, ecSub, rtSub, lock, lkCode, lkVal, lkPrev, snap,
                   committed, numIn, numOut, resolved, locked, sample, bar,
                   symbol, feed, dashboard, holdings, outstanding,
                   dashboard_signature, snapshot, outcome, replay_series,
                   replay_idx, applied, stress_seen, api_calls, api_errors,
                   api, heap, consumer, perf_real, candle_api>>

\* strategy.recompute_scores(s, rate, diff, inten)
TickScore ==
    /\ pc["rt"] = "t_score"
    /\ Access("rt", {"stocks"})
    /\ LET s == stock_by_code[lkCode["rt"]]
       IN SetRow(s.code, [s EXCEPT !.frs = Score(s.price, s.tick_count)])
    /\ pc' = [pc EXCEPT !["rt"] = "t_count"]
    /\ UNCHANGED <<candles, candle_idx, candle_req_queue, candle_req_set,
                   stress_idx, rt_connected, rt_subscribed, account_no,
                   exec_connected, stop, stress_override, stress_enabled,
                   stress_cycle, market_open, srvSub, ecRaw, ecCodes, ecRet,
                   ecI, subCodes, subOk, bgStage, bgCode, bgTargets, bgK,
                   bgSeries, bgIdx, bgResp, grid, gridOf, whole, ecClean,
                   ecEnq, ecSub, rtSub, lock, lkCode, lkVal, lkPrev, snap,
                   committed, numIn, numOut, resolved, locked, sample, bar,
                   symbol, feed, dashboard, holdings, outstanding,
                   dashboard_signature, snapshot, outcome, replay_series,
                   replay_idx, applied, stress_seen, api_calls, api_errors,
                   api, heap, consumer, perf_real, candle_api>>

\* s["tick_count"] += 1
TickCount ==
    /\ pc["rt"] = "t_count"
    /\ Access("rt", {"stocks"})
    /\ LET s == stock_by_code[lkCode["rt"]]
       IN SetRow(s.code, [s EXCEPT !.tick_count = @ + 1])
    /\ pc' = [pc EXCEPT !["rt"] = "t_leave"]
    /\ UNCHANGED <<candles, candle_idx, candle_req_queue, candle_req_set,
                   stress_idx, rt_connected, rt_subscribed, account_no,
                   exec_connected, stop, stress_override, stress_enabled,
                   stress_cycle, market_open, srvSub, ecRaw, ecCodes, ecRet,
                   ecI, subCodes, subOk, bgStage, bgCode, bgTargets, bgK,
                   bgSeries, bgIdx, bgResp, grid, gridOf, whole, ecClean,
                   ecEnq, ecSub, rtSub, lock, lkCode, lkVal, lkPrev, snap,
                   committed, numIn, numOut, resolved, locked, sample, bar,
                   symbol, feed, dashboard, holdings, outstanding,
                   dashboard_signature, snapshot, outcome, replay_series,
                   replay_idx, applied, stress_seen, api_calls, api_errors,
                   api, heap, consumer, perf_real, candle_api>>

TickLeave ==
    /\ pc["rt"] = "t_leave"
    /\ Leave("rt")
    /\ committed' = stock_by_code
    /\ lkCode' = [lkCode EXCEPT !["rt"] = ""]
    /\ lkVal' = [lkVal EXCEPT !["rt"] = 0]
    /\ pc' = [pc EXCEPT !["rt"] = "recv"]
    /\ UNCHANGED <<stocks, stock_by_code, candles, candle_idx,
                   candle_req_queue, candle_req_set, stress_idx,
                   rt_connected, rt_subscribed, account_no, exec_connected,
                   stop, stress_override, stress_enabled, stress_cycle,
                   market_open, srvSub, ecRaw, ecCodes, ecRet, ecI, subCodes,
                   subOk, bgStage, bgCode, bgTargets, bgK, bgSeries, bgIdx,
                   bgResp, grid, gridOf, whole, ecClean, ecEnq, ecSub, rtSub,
                   lkPrev, snap, bare, numIn, numOut, resolved, locked,
                   sample, bar, symbol, feed, dashboard, holdings,
                   outstanding, dashboard_signature, snapshot, outcome,
                   replay_series, replay_idx, applied, stress_seen,
                   api_calls, api_errors, api, heap, consumer, perf_real,
                   candle_api>>

OnRealtimeSteps ==
    \/ \E code \in TickCodes, v \in {0} \cup Prices : OnRealtime(code, v)
    \/ TickEnter \/ TickFind \/ TickPrice \/ TickScore \/ TickCount \/ TickLeave

\* ---------------------------------------------------------- get_stock_detail

\* Codes the detail panel asks for.
DetailCodes == {"A", "C"}

DetailCall(code) ==
    /\ pc[Consumer] = "idle"
    /\ lkCode' = [lkCode EXCEPT ![Consumer] = code]
    /\ pc' = [pc EXCEPT ![Consumer] = "d_enter"]
    /\ UNCHANGED <<stocks, stock_by_code, candles, candle_idx,
                   candle_req_queue, candle_req_set, stress_idx,
                   rt_connected, rt_subscribed, account_no, exec_connected,
                   stop, stress_override, stress_enabled, stress_cycle,
                   market_open, srvSub, ecRaw, ecCodes, ecRet, ecI, subCodes,
                   subOk, bgStage, bgCode, bgTargets, bgK, bgSeries, bgIdx,
                   bgResp, grid, gridOf, whole, ecClean, ecEnq, ecSub, rtSub,
                   lock, lkVal, lkPrev, snap, committed, bare, numIn, numOut,
                   resolved, locked, sample, bar, symbol, feed, dashboard,
                   holdings, outstanding, dashboard_signature, snapshot,
                   outcome, replay_series, replay_idx, applied, stress_seen,
                   api_calls, api_errors, api, heap, consumer, perf_real,
                   candle_api>>

DetailEnter ==
    /\ pc[Consumer] = "d_enter"
    /\ CanEnter(Consumer)
    /\ Enter(Consumer)
    /\ pc' = [pc EXCEPT ![Consumer] = "d_find"]
    /\ UNCHANGED <<stocks, stock_by_code, candles, candle_idx,
                   candle_req_queue, candle_req_set, stress_idx,
                   rt_connected, rt_subscribed, account_no, exec_connected,
                   stop, stress_override, stress_enabled, stress_cycle,
                   market_open, srvSub, ecRaw, ecCodes, ecRet, ecI, subCodes,
                   subOk, bgStage, bgCode, bgTargets, bgK, bgSeries, bgIdx,
                   bgResp, grid, gridOf, whole, ecClean, ecEnq, ecSub, rtSub,
                   lkCode, lkVal, lkPrev, snap, committed, bare, numIn,
                   numOut, resolved, locked, sample, bar, symbol, feed,
                   dashboard, holdings, outstanding, dashboard_signature,
                   snapshot, outcome, replay_series, replay_idx, applied,
                   stress_seen, api_calls, api_errors, api, heap, consumer,
                   perf_real, candle_api>>

\* s = self._stock_by_code.get(code); if not s: return {}
DetailFind ==
    /\ pc[Consumer] = "d_find"
    /\ Access(Consumer, {"stock_by_code"})
    /\ pc' = [pc EXCEPT ![Consumer] =
               IF lkCode[Consumer] \in DOMAIN stock_by_code THEN "d_price" ELSE "d_leave"]
    /\ UNCHANGED <<stocks, stock_by_code, candles, candle_idx,
                   candle_req_queue, candle_req_set, stress_idx,
                   rt_connected, rt_subscribed, account_no, exec_connected,
                   stop, stress_override, stress_enabled, stress_cycle,
                   market_open, srvSub, ecRaw, ecCodes, ecRet, ecI, subCodes,
                   subOk, bgStage, bgCode, bgTargets, bgK, bgSeries, bgIdx,
                   bgResp, grid, gridOf, whole, ecClean, ecEnq, ecSub, rtSub,
                   lock, lkCode, lkVal, lkPrev, snap, committed, numIn,
                   numOut, resolved, locked, sample, bar, symbol, feed,
                   dashboard, holdings, outstanding, dashboard_signature,
                   snapshot, outcome, replay_series, replay_idx, applied,
                   stress_seen, api_calls, api_errors, api, heap, consumer,
                   perf_real, candle_api>>

\* p = _to_num(s["price"])
DetailPrice ==
    /\ pc[Consumer] = "d_price"
    /\ Access(Consumer, {"stocks"})
    /\ snap' = [snap EXCEPT !.price = stock_by_code[lkCode[Consumer]].price]
    /\ pc' = [pc EXCEPT ![Consumer] = "d_count"]
    /\ UNCHANGED <<stocks, stock_by_code, candles, candle_idx,
                   candle_req_queue, candle_req_set, stress_idx,
                   rt_connected, rt_subscribed, account_no, exec_connected,
                   stop, stress_override, stress_enabled, stress_cycle,
                   market_open, srvSub, ecRaw, ecCodes, ecRet, ecI, subCodes,
                   subOk, bgStage, bgCode, bgTargets, bgK, bgSeries, bgIdx,
                   bgResp, grid, gridOf, whole, ecClean, ecEnq, ecSub, rtSub,
                   lock, lkCode, lkVal, lkPrev, committed, numIn, numOut,
                   resolved, locked, sample, bar, symbol, feed, dashboard,
                   holdings, outstanding, dashboard_signature, snapshot,
                   outcome, replay_series, replay_idx, applied, stress_seen,
                   api_calls, api_errors, api, heap, consumer, perf_real,
                   candle_api>>

\* tc = max(1, _to_num(s.get("tick_count", 1)))
DetailCount ==
    /\ pc[Consumer] = "d_count"
    /\ Access(Consumer, {"stocks"})
    /\ snap' = [snap EXCEPT !.tick_count = stock_by_code[lkCode[Consumer]].tick_count]
    /\ pc' = [pc EXCEPT ![Consumer] = "d_frs"]
    /\ UNCHANGED <<stocks, stock_by_code, candles, candle_idx,
                   candle_req_queue, candle_req_set, stress_idx,
                   rt_connected, rt_subscribed, account_no, exec_connected,
                   stop, stress_override, stress_enabled, stress_cycle,
                   market_open, srvSub, ecRaw, ecCodes, ecRet, ecI, subCodes,
                   subOk, bgStage, bgCode, bgTargets, bgK, bgSeries, bgIdx,
                   bgResp, grid, gridOf, whole, ecClean, ecEnq, ecSub, rtSub,
                   lock, lkCode, lkVal, lkPrev, committed, numIn, numOut,
                   resolved, locked, sample, bar, symbol, feed, dashboard,
                   holdings, outstanding, dashboard_signature, snapshot,
                   outcome, replay_series, replay_idx, applied, stress_seen,
                   api_calls, api_errors, api, heap, consumer, perf_real,
                   candle_api>>

\* "frs": _to_num(s.get("frs")); the dict is complete.
DetailFrs ==
    /\ pc[Consumer] = "d_frs"
    /\ Access(Consumer, {"stocks"})
    /\ snap' = [snap EXCEPT !.frs = stock_by_code[lkCode[Consumer]].frs]
    /\ pc' = [pc EXCEPT ![Consumer] = "d_leave"]
    /\ UNCHANGED <<stocks, stock_by_code, candles, candle_idx,
                   candle_req_queue, candle_req_set, stress_idx,
                   rt_connected, rt_subscribed, account_no, exec_connected,
                   stop, stress_override, stress_enabled, stress_cycle,
                   market_open, srvSub, ecRaw, ecCodes, ecRet, ecI, subCodes,
                   subOk, bgStage, bgCode, bgTargets, bgK, bgSeries, bgIdx,
                   bgResp, grid, gridOf, whole, ecClean, ecEnq, ecSub, rtSub,
                   lock, lkCode, lkVal, lkPrev, committed, numIn, numOut,
                   resolved, locked, sample, bar, symbol, feed, dashboard,
                   holdings, outstanding, dashboard_signature, snapshot,
                   outcome, replay_series, replay_idx, applied, stress_seen,
                   api_calls, api_errors, api, heap, consumer, perf_real,
                   candle_api>>

\* return, leaving the section.
DetailLeave ==
    /\ pc[Consumer] = "d_leave"
    /\ Leave(Consumer)
    /\ lkCode' = [lkCode EXCEPT ![Consumer] = ""]
    /\ snap' = NoSnap
    /\ pc' = [pc EXCEPT ![Consumer] = "idle"]
    /\ UNCHANGED <<stocks, stock_by_code, candles, candle_idx,
                   candle_req_queue, candle_req_set, stress_idx,
                   rt_connected, rt_subscribed, account_no, exec_connected,
                   stop, stress_override, stress_enabled, stress_cycle,
                   market_open, srvSub, ecRaw, ecCodes, ecRet, ecI, subCodes,
                   subOk, bgStage, bgCode, bgTargets, bgK, bgSeries, bgIdx,
                   bgResp, grid, gridOf, whole, ecClean, ecEnq, ecSub, rtSub,
                   lkVal, lkPrev, committed, bare, numIn, numOut, resolved,
                   locked, sample, bar, symbol, feed, dashboard, holdings,
                   outstanding, dashboard_signature, snapshot, outcome,
                   replay_series, replay_idx, applied, stress_seen,
                   api_calls, api_errors, api, heap, consumer, perf_real,
                   candle_api>>

GetStockDetail ==
    \/ \E code \in DetailCodes : DetailCall(code)
    \/ DetailEnter \/ DetailFind \/ DetailPrice \/ DetailCount \/ DetailFrs
    \/ DetailLeave

\* ---------------------------------------------------- generate_candle, by steps

GcCall(stock_idx) ==
    /\ pc[Consumer] = "idle"
    /\ lkVal' = [lkVal EXCEPT ![Consumer] = stock_idx]
    /\ pc' = [pc EXCEPT ![Consumer] = "g_enter"]
    /\ UNCHANGED <<stocks, stock_by_code, candles, candle_idx,
                   candle_req_queue, candle_req_set, stress_idx,
                   rt_connected, rt_subscribed, account_no, exec_connected,
                   stop, stress_override, stress_enabled, stress_cycle,
                   market_open, srvSub, ecRaw, ecCodes, ecRet, ecI, subCodes,
                   subOk, bgStage, bgCode, bgTargets, bgK, bgSeries, bgIdx,
                   bgResp, grid, gridOf, whole, ecClean, ecEnq, ecSub, rtSub,
                   lock, lkCode, lkPrev, snap, committed, bare, numIn,
                   numOut, resolved, locked, sample, bar, symbol, feed,
                   dashboard, holdings, outstanding, dashboard_signature,
                   snapshot, outcome, replay_series, replay_idx, applied,
                   stress_seen, api_calls, api_errors, api, heap, consumer,
                   perf_real, candle_api>>

GcEnter ==
    /\ pc[Consumer] = "g_enter"
    /\ CanEnter(Consumer)
    /\ Enter(Consumer)
    /\ pc' = [pc EXCEPT ![Consumer] = "g_find"]
    /\ UNCHANGED <<stocks, stock_by_code, candles, candle_idx,
                   candle_req_queue, candle_req_set, stress_idx,
                   rt_connected, rt_subscribed, account_no, exec_connected,
                   stop, stress_override, stress_enabled, stress_cycle,
                   market_open, srvSub, ecRaw, ecCodes, ecRet, ecI, subCodes,
                   subOk, bgStage, bgCode, bgTargets, bgK, bgSeries, bgIdx,
                   bgResp, grid, gridOf, whole, ecClean, ecEnq, ecSub, rtSub,
                   lkCode, lkVal, lkPrev, snap, committed, bare, numIn,
                   numOut, resolved, locked, sample, bar, symbol, feed,
                   dashboard, holdings, outstanding, dashboard_signature,
                   snapshot, outcome, replay_series, replay_idx, applied,
                   stress_seen, api_calls, api_errors, api, heap, consumer,
                   perf_real, candle_api>>

\* The row of stock_idx; the returns for no rows and for a placeholder row;
\* "if code not in self._candles".
GcFind ==
    /\ pc[Consumer] = "g_find"
    /\ Access(Consumer, {"stocks", "candles"})
    /\ IF stocks = <<>>
       THEN /\ pc' = [pc EXCEPT ![Consumer] = "g_leave"]
            /\ UNCHANGED lkCode
       ELSE LET s == stocks[Max(0, Min(lkVal[Consumer], Len(stocks) - 1)) + 1]
            IN /\ lkCode' = [lkCode EXCEPT ![Consumer] = s.code]
               /\ pc' = [pc EXCEPT ![Consumer] =
                          IF s.placeholder THEN "g_leave"
                          ELSE IF s.code \in DOMAIN candles THEN "g_step"
                          ELSE "g_enq"]
    /\ UNCHANGED <<stocks, stock_by_code, candles, candle_idx,
                   candle_req_queue, candle_req_set, stress_idx,
                   rt_connected, rt_subscribed, account_no, exec_connected,
                   stop, stress_override, stress_enabled, stress_cycle,
                   market_open, srvSub, ecRaw, ecCodes, ecRet, ecI, subCodes,
                   subOk, bgStage, bgCode, bgTargets, bgK, bgSeries, bgIdx,
                   bgResp, grid, gridOf, whole, ecClean, ecEnq, ecSub, rtSub,
                   lock, lkVal, lkPrev, snap, committed, numIn, numOut,
                   resolved, locked, sample, bar, symbol, feed, dashboard,
                   holdings, outstanding, dashboard_signature, snapshot,
                   outcome, replay_series, replay_idx, applied, stress_seen,
                   api_calls, api_errors, api, heap, consumer, perf_real,
                   candle_api>>

\* self._enqueue_candle_fetch(code): the lock is entered again by the thread
\* that holds it, the code is enqueued, the inner section is left.
GcEnqueue ==
    /\ pc[Consumer] = "g_enq"
    /\ CanEnter(Consumer)
    /\ Access(Consumer, {"candle_req"})
    /\ EnqueueCandleFetch(lkCode[Consumer])
    /\ pc' = [pc EXCEPT ![Consumer] = "g_fill"]
    /\ UNCHANGED <<stocks, stock_by_code, candles, candle_idx, stress_idx,
                   rt_connected, rt_subscribed, account_no, exec_connected,
                   stop, stress_override, stress_enabled, stress_cycle,
                   market_open, srvSub, ecRaw, ecCodes, ecRet, ecI, subCodes,
                   subOk, bgStage, bgCode, bgTargets, bgK, bgSeries, bgIdx,
                   bgResp, grid, gridOf, whole, ecClean, ecEnq, ecSub, rtSub,
                   lock, lkCode, lkVal, lkPrev, snap, committed, numIn,
                   numOut, resolved, locked, sample, bar, symbol, feed,
                   dashboard, holdings, outstanding, dashboard_signature,
                   snapshot, outcome, replay_series, replay_idx, applied,
                   stress_seen, api_calls, api_errors, api, heap, consumer,
                   perf_real, candle_api>>

\* self._candles[code] = []; self._candle_idx[code] = 0
GcFill ==
    /\ pc[Consumer] = "g_fill"
    /\ Access(Consumer, {"candles"})
    /\ candles' = Put(candles, lkCode[Consumer], <<>>)
    /\ candle_idx' = Put(candle_idx, lkCode[Consumer], 0)
    /\ pc' = [pc EXCEPT ![Consumer] = "g_step"]
    /\ UNCHANGED <<stocks, stock_by_code, candle_req_queue, candle_req_set,
                   stress_idx, rt_connected, rt_subscribed, account_no,
                   exec_connected, stop, stress_override, stress_enabled,
                   stress_cycle, market_open, srvSub, ecRaw, ecCodes, ecRet,
                   ecI, subCodes, subOk, bgStage, bgCode, bgTargets, bgK,
                   bgSeries, bgIdx, bgResp, grid, gridOf, whole, ecClean,
                   ecEnq, ecSub, rtSub, lock, lkCode, lkVal, lkPrev, snap,
                   committed, numIn, numOut, resolved, locked, sample, bar,
                   symbol, feed, dashboard, holdings, outstanding,
                   dashboard_signature, snapshot, outcome, replay_series,
                   replay_idx, applied, stress_seen, api_calls, api_errors,
                   api, heap, consumer, perf_real, candle_api>>

\* The cursor step and s["price"] = row["c"] (a bar is its close price).
GcStep ==
    /\ pc[Consumer] = "g_step"
    /\ Access(Consumer, {"candles", "stocks"})
    /\ LET code == lkCode[Consumer]
           ser  == Get(candles, code, <<>>)
           i0   == Get(candle_idx, code, 0)
           wrap == i0 >= Len(ser) /\ ~market_open /\ Len(ser) > 1
           i    == IF i0 >= Len(ser)
                   THEN (IF wrap THEN ReplayStart(Len(ser)) ELSE Len(ser) - 1)
                   ELSE i0
       IN IF ser = <<>>
          THEN UNCHANGED <<candle_idx, stocks, stock_by_code>>
          ELSE /\ candle_idx' = IF i < Len(ser) - 1 \/ wrap
                                THEN Put(candle_idx, code, i + 1)
                                ELSE candle_idx
               /\ IF code \in DOMAIN stock_by_code
                  THEN SetRow(code, [stock_by_code[code] EXCEPT !.price = ser[i + 1]])
                  ELSE UNCHANGED <<stocks, stock_by_code>>
    /\ pc' = [pc EXCEPT ![Consumer] = "g_leave"]
    /\ UNCHANGED <<candles, candle_req_queue, candle_req_set, stress_idx,
                   rt_connected, rt_subscribed, account_no, exec_connected,
                   stop, stress_override, stress_enabled, stress_cycle,
                   market_open, srvSub, ecRaw, ecCodes, ecRet, ecI, subCodes,
                   subOk, bgStage, bgCode, bgTargets, bgK, bgSeries, bgIdx,
                   bgResp, grid, gridOf, whole, ecClean, ecEnq, ecSub, rtSub,
                   lock, lkCode, lkVal, lkPrev, snap, committed, numIn,
                   numOut, resolved, locked, sample, bar, symbol, feed,
                   dashboard, holdings, outstanding, dashboard_signature,
                   snapshot, outcome, replay_series, replay_idx, applied,
                   stress_seen, api_calls, api_errors, api, heap, consumer,
                   perf_real, candle_api>>

GcLeave ==
    /\ pc[Consumer] = "g_leave"
    /\ Leave(Consumer)
    /\ committed' = stock_by_code
    /\ lkCode' = [lkCode EXCEPT ![Consumer] = ""]
    /\ lkVal' = [lkVal EXCEPT ![Consumer] = 0]
    /\ pc' = [pc EXCEPT ![Consumer] = "idle"]
    /\ UNCHANGED <<stocks, stock_by_code, candles, candle_idx,
                   candle_req_queue, candle_req_set, stress_idx,
                   rt_connected, rt_subscribed, account_no, exec_connected,
                   stop, stress_override, stress_enabled, stress_cycle,
                   market_open, srvSub, ecRaw, ecCodes, ecRet, ecI, subCodes,
                   subOk, bgStage, bgCode, bgTargets, bgK, bgSeries, bgIdx,
                   bgResp, grid, gridOf, whole, ecClean, ecEnq, ecSub, rtSub,
                   lkPrev, snap, bare, numIn, numOut, resolved, locked,
                   sample, bar, symbol, feed, dashboard, holdings,
                   outstanding, dashboard_signature, snapshot, outcome,
                   replay_series, replay_idx, applied, stress_seen,
                   api_calls, api_errors, api, heap, consumer, perf_real,
                   candle_api>>

GenerateCandleSteps ==
    \/ \E i \in StockIdxs : GcCall(i)
    \/ GcEnter \/ GcFind \/ GcEnqueue \/ GcFill \/ GcStep \/ GcLeave

\* ------------------------------------------------- _refresh_quotes, by steps

\* for code in codes[:20]
QuoteBatch == 20

QuoteEnter ==
    /\ BgRunning
    /\ CanEnter("bg")
    /\ Enter("bg")
    /\ pc' = [pc EXCEPT !["bg"] = "q_codes"]
    /\ UNCHANGED <<stocks, stock_by_code, candles, candle_idx,
                   candle_req_queue, candle_req_set, stress_idx,
                   rt_connected, rt_subscribed, account_no, exec_connected,
                   stop, stress_override, stress_enabled, stress_cycle,
                   market_open, srvSub, ecRaw, ecCodes, ecRet, ecI, subCodes,
                   subOk, bgStage, bgCode, bgTargets, bgK, bgSeries, bgIdx,
                   bgResp, grid, gridOf, whole, ecClean, ecEnq, ecSub, rtSub,
                   lkCode, lkVal, lkPrev, snap, committed, bare, numIn,
                   numOut, resolved, locked, sample, bar, symbol, feed,
                   dashboard, holdings, outstanding, dashboard_signature,
                   snapshot, outcome, replay_series, replay_idx, applied,
                   stress_seen, api_calls, api_errors, api, heap, consumer,
                   perf_real, candle_api>>

\* Variant: the requests of the quote poll sent from inside the section.
StaysInside == "q_next"

\* Where the quote poll goes from the read of the codes: out of the section.
AfterQuoteCodes == "q_leave"

\* codes = [s["code"] for s in self.stocks if s.get("code")]
QuoteCodes ==
    /\ pc["bg"] = "q_codes"
    /\ Access("bg", {"stocks"})
    /\ bgTargets' = Take(stocks, QuoteBatch)
    /\ bgK' = 1
    /\ pc' = [pc EXCEPT !["bg"] = AfterQuoteCodes]
    /\ UNCHANGED <<stocks, stock_by_code, candles, candle_idx,
                   candle_req_queue, candle_req_set, stress_idx,
                   rt_connected, rt_subscribed, account_no, exec_connected,
                   stop, stress_override, stress_enabled, stress_cycle,
                   market_open, srvSub, ecRaw, ecCodes, ecRet, ecI, subCodes,
                   subOk, bgStage, bgCode, bgSeries, bgIdx, bgResp, grid,
                   gridOf, whole, ecClean, ecEnq, ecSub, rtSub, lock, lkCode,
                   lkVal, lkPrev, snap, committed, numIn, numOut, resolved,
                   locked, sample, bar, symbol, feed, dashboard, holdings,
                   outstanding, dashboard_signature, snapshot, outcome,
                   replay_series, replay_idx, applied, stress_seen,
                   api_calls, api_errors, api, heap, consumer, perf_real,
                   candle_api>>

QuoteLeave ==
    /\ pc["bg"] = "q_leave"
    /\ Leave("bg")
    /\ pc' = [pc EXCEPT !["bg"] = "q_next"]
    /\ UNCHANGED <<stocks, stock_by_code, candles, candle_idx,
                   candle_req_queue, candle_req_set, stress_idx,
                   rt_connected, rt_subscribed, account_no, exec_connected,
                   stop, stress_override, stress_enabled, stress_cycle,
                   market_open, srvSub, ecRaw, ecCodes, ecRet, ecI, subCodes,
                   subOk, bgStage, bgCode, bgTargets, bgK, bgSeries, bgIdx,
                   bgResp, grid, gridOf, whole, ecClean, ecEnq, ecSub, rtSub,
                   lkCode, lkVal, lkPrev, snap, committed, bare, numIn,
                   numOut, resolved, locked, sample, bar, symbol, feed,
                   dashboard, holdings, outstanding, dashboard_signature,
                   snapshot, outcome, replay_series, replay_idx, applied,
                   stress_seen, api_calls, api_errors, api, heap, consumer,
                   perf_real, candle_api>>

\* The loop over the codes: the next /api/market/symbol request goes out, or
\* the poll is over and _process_candle_fetch_once begins.
QuoteNext ==
    /\ pc["bg"] = "q_next"
    /\ IF bgK <= Len(bgTargets)
       THEN /\ pc' = [pc EXCEPT !["bg"] = "q_http"]
            /\ UNCHANGED <<bgTargets, bgK>>
       ELSE /\ pc' = [pc EXCEPT !["bg"] = "cf_enter"]
            /\ bgTargets' = <<>>
            /\ bgK' = 0
    /\ UNCHANGED <<stocks, stock_by_code, candles, candle_idx,
                   candle_req_queue, candle_req_set, stress_idx,
                   rt_connected, rt_subscribed, account_no, exec_connected,
                   stop, stress_override, stress_enabled, stress_cycle,
                   market_open, srvSub, ecRaw, ecCodes, ecRet, ecI, subCodes,
                   subOk, bgStage, bgCode, bgSeries, bgIdx, bgResp, grid,
                   gridOf, whole, ecClean, ecEnq, ecSub, rtSub, lock, lkCode,
                   lkVal, lkPrev, snap, committed, bare, numIn, numOut,
                   resolved, locked, sample, bar, symbol, feed, dashboard,
                   holdings, outstanding, dashboard_signature, snapshot,
                   outcome, replay_series, replay_idx, applied, stress_seen,
                   api_calls, api_errors, api, heap, consumer, perf_real,
                   candle_api>>

\* Answers of the symbol request: failed or no dict, or a dict with a price
\* (0: without one).
QuoteAnswers == {-1, 0} \cup Prices

QuoteResponse(v) ==
    /\ pc["bg"] = "q_http"
    /\ v > 0 => Budget
    /\ IF v < 0
       THEN /\ bgK' = bgK + 1
            /\ pc' = [pc EXCEPT !["bg"] = "q_next"]
            /\ UNCHANGED lkVal
       ELSE /\ lkVal' = [lkVal EXCEPT !["bg"] = v]
            /\ pc' = [pc EXCEPT !["bg"] = "q_enter"]
            /\ UNCHANGED bgK
    /\ UNCHANGED <<stocks, stock_by_code, candles, candle_idx,
                   candle_req_queue, candle_req_set, stress_idx,
                   rt_connected, rt_subscribed, account_no, exec_connected,
                   stop, stress_override, stress_enabled, stress_cycle,
                   market_open, srvSub, ecRaw, ecCodes, ecRet, ecI, subCodes,
                   subOk, bgStage, bgCode, bgTargets, bgSeries, bgIdx,
                   bgResp, grid, gridOf, whole, ecClean, ecEnq, ecSub, rtSub,
                   lock, lkCode, lkPrev, snap, committed, bare, numIn,
                   numOut, resolved, locked, sample, bar, symbol, feed,
                   dashboard, holdings, outstanding, dashboard_signature,
                   snapshot, outcome, replay_series, replay_idx, applied,
                   stress_seen, api_calls, api_errors, api, heap, consumer,
                   perf_real, candle_api>>

QuoteEnterRow ==
    /\ pc["bg"] = "q_enter"
    /\ CanEnter("bg")
    /\ Enter("bg")
    /\ pc' = [pc EXCEPT !["bg"] = "q_price"]
    /\ UNCHANGED <<stocks, stock_by_code, candles, candle_idx,
                   candle_req_queue, candle_req_set, stress_idx,
                   rt_connected, rt_subscribed, account_no, exec_connected,
                   stop, stress_override, stress_enabled, stress_cycle,
                   market_open, srvSub, ecRaw, ecCodes, ecRet, ecI, subCodes,
                   subOk, bgStage, bgCode, bgTargets, bgK, bgSeries, bgIdx,
                   bgResp, grid, gridOf, whole, ecClean, ecEnq, ecSub, rtSub,
                   lkCode, lkVal, lkPrev, snap, committed, bare, numIn,
                   numOut, resolved, locked, sample, bar, symbol, feed,
                   dashboard, holdings, outstanding, dashboard_signature,
                   snapshot, outcome, replay_series, replay_idx, applied,
                   stress_seen, api_calls, api_errors, api, heap, consumer,
                   perf_real, candle_api>>

\* s = self._stock_by_code.get(code); if not s: continue;
\* prev = _to_num(s.get("price", 0)); if price > 0: s["price"] = price
QuotePrice ==
    /\ pc["bg"] = "q_price"
    /\ Access("bg", {"stock_by_code", "stocks"})
    /\ LET code == bgTargets[bgK].code
           v    == lkVal["bg"]
       IN IF code \notin DOMAIN stock_by_code
          THEN /\ pc' = [pc EXCEPT !["bg"] = "q_leave2"]
               /\ UNCHANGED <<stocks, stock_by_code, lkPrev>>
          ELSE /\ lkPrev' = stock_by_code[code].price
               /\ IF v > 0
                  THEN SetRow(code, [stock_by_code[code] EXCEPT !.price = v])
                  ELSE UNCHANGED <<stocks, stock_by_code>>
               /\ pc' = [pc EXCEPT !["bg"] =
                          IF v > 0 /\ v # stock_by_code[code].price
                          THEN "q_count" ELSE "q_leave2"]
    /\ UNCHANGED <<candles, candle_idx, candle_req_queue, candle_req_set,
                   stress_idx, rt_connected, rt_subscribed, account_no,
                   exec_connected, stop, stress_override, stress_enabled,
                   stress_cycle, market_open, srvSub, ecRaw, ecCodes, ecRet,
                   ecI, subCodes, subOk, bgStage, bgCode, bgTargets, bgK,
                   bgSeries, bgIdx, bgResp, grid, gridOf, whole, ecClean,
                   ecEnq, ecSub, rtSub, lock, lkCode, lkVal, snap, committed,
                   numIn, numOut, resolved, locked, sample, bar, symbol,
                   feed, dashboard, holdings, outstanding,
                   dashboard_signature, snapshot, outcome, replay_series,
                   replay_idx, applied, stress_seen, api_calls, api_errors,
                   api, heap, consumer, perf_real, candle_api>>

\* if price > 0 and price != prev: s["tick_count"] += 1
QuoteCount ==
    /\ pc["bg"] = "q_count"
    /\ Access("bg", {"stocks"})
    /\ LET s == stock_by_code[bgTargets[bgK].code]
       IN SetRow(s.code, [s EXCEPT !.tick_count = @ + 1])
    /\ pc' = [pc EXCEPT !["bg"] = "q_score"]
    /\ UNCHANGED <<candles, candle_idx, candle_req_queue, candle_req_set,
                   stress_idx, rt_connected, rt_subscribed, account_no,
                   exec_connected, stop, stress_override, stress_enabled,
                   stress_cycle, market_open, srvSub, ecRaw, ecCodes, ecRet,
                   ecI, subCodes, subOk, bgStage, bgCode, bgTargets, bgK,
                   bgSeries, bgIdx, bgResp, grid, gridOf, whole, ecClean,
                   ecEnq, ecSub, rtSub, lock, lkCode, lkVal, lkPrev, snap,
                   committed, numIn, numOut, resolved, locked, sample, bar,
                   symbol, feed, dashboard, holdings, outstanding,
                   dashboard_signature, snapshot, outcome, replay_series,
                   replay_idx, applied, stress_seen, api_calls, api_errors,
                   api, heap, consumer, perf_real, candle_api>>

\* strategy.recompute_scores(s)
QuoteScore ==
    /\ pc["bg"] = "q_score"
    /\ Access("bg", {"stocks"})
    /\ LET s == stock_by_code[bgTargets[bgK].code]
       IN SetRow(s.code, [s EXCEPT !.frs = Score(s.price, s.tick_count)])
    /\ pc' = [pc EXCEPT !["bg"] = "q_leave2"]
    /\ UNCHANGED <<candles, candle_idx, candle_req_queue, candle_req_set,
                   stress_idx, rt_connected, rt_subscribed, account_no,
                   exec_connected, stop, stress_override, stress_enabled,
                   stress_cycle, market_open, srvSub, ecRaw, ecCodes, ecRet,
                   ecI, subCodes, subOk, bgStage, bgCode, bgTargets, bgK,
                   bgSeries, bgIdx, bgResp, grid, gridOf, whole, ecClean,
                   ecEnq, ecSub, rtSub, lock, lkCode, lkVal, lkPrev, snap,
                   committed, numIn, numOut, resolved, locked, sample, bar,
                   symbol, feed, dashboard, holdings, outstanding,
                   dashboard_signature, snapshot, outcome, replay_series,
                   replay_idx, applied, stress_seen, api_calls, api_errors,
                   api, heap, consumer, perf_real, candle_api>>

QuoteLeaveRow ==
    /\ pc["bg"] = "q_leave2"
    /\ Leave("bg")
    /\ committed' = stock_by_code
    /\ bgK' = bgK + 1
    /\ lkPrev' = 0
    /\ lkVal' = [lkVal EXCEPT !["bg"] = 0]
    /\ pc' = [pc EXCEPT !["bg"] = "q_next"]
    /\ UNCHANGED <<stocks, stock_by_code, candles, candle_idx,
                   candle_req_queue, candle_req_set, stress_idx,
                   rt_connected, rt_subscribed, account_no, exec_connected,
                   stop, stress_override, stress_enabled, stress_cycle,
                   market_open, srvSub, ecRaw, ecCodes, ecRet, ecI, subCodes,
                   subOk, bgStage, bgCode, bgTargets, bgSeries, bgIdx,
                   bgResp, grid, gridOf, whole, ecClean, ecEnq, ecSub, rtSub,
                   lkCode, snap, bare, numIn, numOut, resolved, locked,
                   sample, bar, symbol, feed, dashboard, holdings,
                   outstanding, dashboard_signature, snapshot, outcome,
                   replay_series, replay_idx, applied, stress_seen,
                   api_calls, api_errors, api, heap, consumer, perf_real,
                   candle_api>>

RefreshQuotes ==
    \/ QuoteEnter \/ QuoteCodes \/ QuoteLeave \/ QuoteNext
    \/ (\E v \in QuoteAnswers : QuoteResponse(v))
    \/ QuoteEnterRow \/ QuotePrice \/ QuoteCount \/ QuoteScore \/ QuoteLeaveRow

\* --------------------------------------- _process_candle_fetch_once, by steps

CfEnter ==
    /\ pc["bg"] = "cf_enter"
    /\ CanEnter("bg")
    /\ Enter("bg")
    /\ pc' = [pc EXCEPT !["bg"] = "cf_pop"]
    /\ UNCHANGED <<stocks, stock_by_code, candles, candle_idx,
                   candle_req_queue, candle_req_set, stress_idx,
                   rt_connected, rt_subscribed, account_no, exec_connected,
                   stop, stress_override, stress_enabled, stress_cycle,
                   market_open, srvSub, ecRaw, ecCodes, ecRet, ecI, subCodes,
                   subOk, bgStage, bgCode, bgTargets, bgK, bgSeries, bgIdx,
                   bgResp, grid, gridOf, whole, ecClean, ecEnq, ecSub, rtSub,
                   lkCode, lkVal, lkPrev, snap, committed, bare, numIn,
                   numOut, resolved, locked, sample, bar, symbol, feed,
                   dashboard, holdings, outstanding, dashboard_signature,
                   snapshot, outcome, replay_series, replay_idx, applied,
                   stress_seen, api_calls, api_errors, api, heap, consumer,
                   perf_real, candle_api>>

\* if self._candle_req_queue: popleft, discard
CfPop ==
    /\ pc["bg"] = "cf_pop"
    /\ Access("bg", {"candle_req"})
    /\ IF candle_req_queue # <<>>
       THEN /\ bgCode' = Head(candle_req_queue)
            /\ candle_req_queue' = Tail(candle_req_queue)
            /\ candle_req_set' = candle_req_set \ {Head(candle_req_queue)}
       ELSE UNCHANGED <<bgCode, candle_req_queue, candle_req_set>>
    /\ pc' = [pc EXCEPT !["bg"] = "cf_leave"]
    /\ UNCHANGED <<stocks, stock_by_code, candles, candle_idx, stress_idx,
                   rt_connected, rt_subscribed, account_no, exec_connected,
                   stop, stress_override, stress_enabled, stress_cycle,
                   market_open, srvSub, ecRaw, ecCodes, ecRet, ecI, subCodes,
                   subOk, bgStage, bgTargets, bgK, bgSeries, bgIdx, bgResp,
                   grid, gridOf, whole, ecClean, ecEnq, ecSub, rtSub, lock,
                   lkCode, lkVal, lkPrev, snap, committed, numIn, numOut,
                   resolved, locked, sample, bar, symbol, feed, dashboard,
                   holdings, outstanding, dashboard_signature, snapshot,
                   outcome, replay_series, replay_idx, applied, stress_seen,
                   api_calls, api_errors, api, heap, consumer, perf_real,
                   candle_api>>

\* Out of the section: "if not code: return", else the candle request goes
\* out.
CfLeave ==
    /\ pc["bg"] = "cf_leave"
    /\ Leave("bg")
    /\ pc' = [pc EXCEPT !["bg"] = IF bgCode = "" THEN "st_gate" ELSE "cf_http"]
    /\ UNCHANGED <<stocks, stock_by_code, candles, candle_idx,
                   candle_req_queue, candle_req_set, stress_idx,
                   rt_connected, rt_subscribed, account_no, exec_connected,
                   stop, stress_override, stress_enabled, stress_cycle,
                   market_open, srvSub, ecRaw, ecCodes, ecRet, ecI, subCodes,
                   subOk, bgStage, bgCode, bgTargets, bgK, bgSeries, bgIdx,
                   bgResp, grid, gridOf, whole, ecClean, ecEnq, ecSub, rtSub,
                   lkCode, lkVal, lkPrev, snap, committed, bare, numIn,
                   numOut, resolved, locked, sample, bar, symbol, feed,
                   dashboard, holdings, outstanding, dashboard_signature,
                   snapshot, outcome, replay_series, replay_idx, applied,
                   stress_seen, api_calls, api_errors, api, heap, consumer,
                   perf_real, candle_api>>

\* rows = self._fetch_candles_minute(code); if rows: ...
CfResponse(rows) ==
    /\ pc["bg"] = "cf_http"
    /\ IsDummyCode(bgCode) => rows = <<>>
    /\ IF rows = <<>>
       THEN /\ bgCode' = ""
            /\ pc' = [pc EXCEPT !["bg"] = "st_gate"]
            /\ UNCHANGED bgSeries
       ELSE /\ bgSeries' = rows
            /\ pc' = [pc EXCEPT !["bg"] = "cf_enter2"]
            /\ UNCHANGED bgCode
    /\ UNCHANGED <<stocks, stock_by_code, candles, candle_idx,
                   candle_req_queue, candle_req_set, stress_idx,
                   rt_connected, rt_subscribed, account_no, exec_connected,
                   stop, stress_override, stress_enabled, stress_cycle,
                   market_open, srvSub, ecRaw, ecCodes, ecRet, ecI, subCodes,
                   subOk, bgStage, bgTargets, bgK, bgIdx, bgResp, grid,
                   gridOf, whole, ecClean, ecEnq, ecSub, rtSub, lock, lkCode,
                   lkVal, lkPrev, snap, committed, bare, numIn, numOut,
                   resolved, locked, sample, bar, symbol, feed, dashboard,
                   holdings, outstanding, dashboard_signature, snapshot,
                   outcome, replay_series, replay_idx, applied, stress_seen,
                   api_calls, api_errors, api, heap, consumer, perf_real,
                   candle_api>>

CfEnterStore ==
    /\ pc["bg"] = "cf_enter2"
    /\ CanEnter("bg")
    /\ Enter("bg")
    /\ pc' = [pc EXCEPT !["bg"] = "cf_store"]
    /\ UNCHANGED <<stocks, stock_by_code, candles, candle_idx,
                   candle_req_queue, candle_req_set, stress_idx,
                   rt_connected, rt_subscribed, account_no, exec_connected,
                   stop, stress_override, stress_enabled, stress_cycle,
                   market_open, srvSub, ecRaw, ecCodes, ecRet, ecI, subCodes,
                   subOk, bgStage, bgCode, bgTargets, bgK, bgSeries, bgIdx,
                   bgResp, grid, gridOf, whole, ecClean, ecEnq, ecSub, rtSub,
                   lkCode, lkVal, lkPrev, snap, committed, bare, numIn,
                   numOut, resolved, locked, sample, bar, symbol, feed,
                   dashboard, holdings, outstanding, dashboard_signature,
                   snapshot, outcome, replay_series, replay_idx, applied,
                   stress_seen, api_calls, api_errors, api, heap, consumer,
                   perf_real, candle_api>>

\* self._candles[code] = rows; self._candle_idx[code] = ...
CfStore ==
    /\ pc["bg"] = "cf_store"
    /\ Access("bg", {"candles"})
    /\ CandleStore(bgCode, bgSeries)
    /\ pc' = [pc EXCEPT !["bg"] = "cf_leave2"]
    /\ UNCHANGED <<stocks, stock_by_code, candle_req_queue, candle_req_set,
                   stress_idx, rt_connected, rt_subscribed, account_no,
                   exec_connected, stop, stress_override, stress_enabled,
                   stress_cycle, market_open, srvSub, ecRaw, ecCodes, ecRet,
                   ecI, subCodes, subOk, bgStage, bgCode, bgTargets, bgK,
                   bgSeries, bgIdx, bgResp, grid, gridOf, whole, ecClean,
                   ecEnq, ecSub, rtSub, lock, lkCode, lkVal, lkPrev, snap,
                   committed, numIn, numOut, resolved, locked, sample, bar,
                   symbol, feed, dashboard, holdings, outstanding,
                   dashboard_signature, snapshot, outcome, replay_series,
                   replay_idx, applied, stress_seen, api_calls, api_errors,
                   api, heap, consumer, perf_real, candle_api>>

CfLeaveStore ==
    /\ pc["bg"] = "cf_leave2"
    /\ Leave("bg")
    /\ bgCode' = ""
    /\ bgSeries' = <<>>
    /\ pc' = [pc EXCEPT !["bg"] = "st_gate"]
    /\ UNCHANGED <<stocks, stock_by_code, candles, candle_idx,
                   candle_req_queue, candle_req_set, stress_idx,
                   rt_connected, rt_subscribed, account_no, exec_connected,
                   stop, stress_override, stress_enabled, stress_cycle,
                   market_open, srvSub, ecRaw, ecCodes, ecRet, ecI, subCodes,
                   subOk, bgStage, bgTargets, bgK, bgIdx, bgResp, grid,
                   gridOf, whole, ecClean, ecEnq, ecSub, rtSub, lkCode,
                   lkVal, lkPrev, snap, committed, bare, numIn, numOut,
                   resolved, locked, sample, bar, symbol, feed, dashboard,
                   holdings, outstanding, dashboard_signature, snapshot,
                   outcome, replay_series, replay_idx, applied, stress_seen,
                   api_calls, api_errors, api, heap, consumer, perf_real,
                   candle_api>>

ProcessCandleFetch ==
    \/ CfEnter \/ CfPop \/ CfLeave \/ (\E rows \in FetchResults : CfResponse(rows))
    \/ CfEnterStore \/ CfStore \/ CfLeaveStore

\* ------------------------------------------------- _run_stress_tick, by steps

\* _bg_loop: no stress tick in this iteration.
StSkip ==
    /\ pc["bg"] = "st_gate"
    /\ pc' = [pc EXCEPT !["bg"] = "pre"]
    /\ UNCHANGED <<stocks, stock_by_code, candles, candle_idx,
                   candle_req_queue, candle_req_set, stress_idx,
                   rt_connected, rt_subscribed, account_no, exec_connected,
                   stop, stress_override, stress_enabled, stress_cycle,
                   market_open, srvSub, ecRaw, ecCodes, ecRet, ecI, subCodes,
                   subOk, bgStage, bgCode, bgTargets, bgK, bgSeries, bgIdx,
                   bgResp, grid, gridOf, whole, ecClean, ecEnq, ecSub, rtSub,
                   lock, lkCode, lkVal, lkPrev, snap, committed, bare, numIn,
                   numOut, resolved, locked, sample, bar, symbol, feed,
                   dashboard, holdings, outstanding, dashboard_signature,
                   snapshot, outcome, replay_series, replay_idx, applied,
                   stress_seen, api_calls, api_errors, api, heap, consumer,
                   perf_real, candle_api>>

\* _bg_loop: "if st and not mo", the stress timer due: _run_stress_tick
\* enters its first section.
StEnter ==
    /\ pc["bg"] = "st_gate"
    /\ StressActive /\ ~market_open
    /\ Budget
    /\ CanEnter("bg")
    /\ stress_cycle < MaxCycles
    /\ stress_cycle' = stress_cycle + 1
    /\ Enter("bg")
    /\ pc' = [pc EXCEPT !["bg"] = "st_targets"]
    /\ UNCHANGED <<stocks, stock_by_code, candles, candle_idx,
                   candle_req_queue, candle_req_set, stress_idx,
                   rt_connected, rt_subscribed, account_no, exec_connected,
                   stop, stress_override, stress_enabled, market_open,
                   srvSub, ecRaw, ecCodes, ecRet, ecI, subCodes, subOk,
                   bgStage, bgCode, bgTargets, bgK, bgSeries, bgIdx, bgResp,
                   grid, gridOf, whole, ecClean, ecEnq, ecSub, rtSub, lkCode,
                   lkVal, lkPrev, snap, committed, bare, numIn, numOut,
                   resolved, locked, sample, bar, symbol, feed, dashboard,
                   holdings, outstanding, dashboard_signature, snapshot,
                   outcome, replay_series, replay_idx, applied, stress_seen,
                   api_calls, api_errors, api, heap, consumer, perf_real,
                   candle_api>>

\* targets = self.stocks[:self._stress_batch]
StTargets ==
    /\ pc["bg"] = "st_targets"
    /\ Access("bg", {"stocks"})
    /\ bgTargets' = Take(stocks, StressBatchDefault)
    /\ bgK' = 1
    /\ pc' = [pc EXCEPT !["bg"] = "st_leave"]
    /\ UNCHANGED <<stocks, stock_by_code, candles, candle_idx,
                   candle_req_queue, candle_req_set, stress_idx,
                   rt_connected, rt_subscribed, account_no, exec_connected,
                   stop, stress_override, stress_enabled, stress_cycle,
                   market_open, srvSub, ecRaw, ecCodes, ecRet, ecI, subCodes,
                   subOk, bgStage, bgCode, bgSeries, bgIdx, bgResp, grid,
                   gridOf, whole, ecClean, ecEnq, ecSub, rtSub, lock, lkCode,
                   lkVal, lkPrev, snap, committed, numIn, numOut, resolved,
                   locked, sample, bar, symbol, feed, dashboard, holdings,
                   outstanding, dashboard_signature, snapshot, outcome,
                   replay_series, replay_idx, applied, stress_seen,
                   api_calls, api_errors, api, heap, consumer, perf_real,
                   candle_api>>

StLeave ==
    /\ pc["bg"] = "st_leave"
    /\ Leave("bg")
    /\ pc' = [pc EXCEPT !["bg"] = "st_series"]
    /\ UNCHANGED <<stocks, stock_by_code, candles, candle_idx,
                   candle_req_queue, candle_req_set, stress_idx,
                   rt_connected, rt_subscribed, account_no, exec_connected,
                   stop, stress_override, stress_enabled, stress_cycle,
                   market_open, srvSub, ecRaw, ecCodes, ecRet, ecI, subCodes,
                   subOk, bgStage, bgCode, bgTargets, bgK, bgSeries, bgIdx,
                   bgResp, grid, gridOf, whole, ecClean, ecEnq, ecSub, rtSub,
                   lkCode, lkVal, lkPrev, snap, committed, bare, numIn,
                   numOut, resolved, locked, sample, bar, symbol, feed,
                   dashboard, holdings, outstanding, dashboard_signature,
                   snapshot, outcome, replay_series, replay_idx, applied,
                   stress_seen, api_calls, api_errors, api, heap, consumer,
                   perf_real, candle_api>>

\* for s in targets: series = self._candles.get(code, []);
\* if not series: continue
StSeries ==
    /\ pc["bg"] = "st_series"
    /\ IF bgK > Len(bgTargets)
       THEN /\ pc' = [pc EXCEPT !["bg"] = "pre"]
            /\ bgTargets' = <<>>
            /\ bgK' = 0
            /\ UNCHANGED <<bgSeries, bare>>
       ELSE /\ Access("bg", {"candles"})
            /\ LET series == Get(candles, bgTargets[bgK].code, <<>>)
               IN IF series = <<>>
                  THEN /\ bgK' = bgK + 1
                       /\ UNCHANGED <<pc, bgTargets, bgSeries>>
                  ELSE /\ bgSeries' = series
                       /\ pc' = [pc EXCEPT !["bg"] = "st_cursor"]
                       /\ UNCHANGED <<bgTargets, bgK>>
    /\ UNCHANGED <<stocks, stock_by_code, candles, candle_idx,
                   candle_req_queue, candle_req_set, stress_idx,
                   rt_connected, rt_subscribed, account_no, exec_connected,
                   stop, stress_override, stress_enabled, stress_cycle,
                   market_open, srvSub, ecRaw, ecCodes, ecRet, ecI, subCodes,
                   subOk, bgStage, bgCode, bgIdx, bgResp, grid, gridOf,
                   whole, ecClean, ecEnq, ecSub, rtSub, lock, lkCode, lkVal,
                   lkPrev, snap, committed, numIn, numOut, resolved, locked,
                   sample, bar, symbol, feed, dashboard, holdings,
                   outstanding, dashboard_signature, snapshot, outcome,
                   replay_series, replay_idx, applied, stress_seen,
                   api_calls, api_errors, api, heap, consumer, perf_real,
                   candle_api>>

\* idx = self._stress_candle_replay_idx.get(code, 0);
\* if idx >= len(series): idx = 0
StCursor ==
    /\ pc["bg"] = "st_cursor"
    /\ Access("bg", {"stress_idx"})
    /\ LET idx == Get(stress_idx, bgTargets[bgK].code, 0)
       IN bgIdx' = (IF idx >= Len(bgSeries) THEN 0 ELSE idx)
    /\ pc' = [pc EXCEPT !["bg"] = "st_advance"]
    /\ UNCHANGED <<stocks, stock_by_code, candles, candle_idx,
                   candle_req_queue, candle_req_set, stress_idx,
                   rt_connected, rt_subscribed, account_no, exec_connected,
                   stop, stress_override, stress_enabled, stress_cycle,
                   market_open, srvSub, ecRaw, ecCodes, ecRet, ecI, subCodes,
                   subOk, bgStage, bgCode, bgTargets, bgK, bgSeries, bgResp,
                   grid, gridOf, whole, ecClean, ecEnq, ecSub, rtSub, lock,
                   lkCode, lkVal, lkPrev, snap, committed, numIn, numOut,
                   resolved, locked, sample, bar, symbol, feed, dashboard,
                   holdings, outstanding, dashboard_signature, snapshot,
                   outcome, replay_series, replay_idx, applied, stress_seen,
                   api_calls, api_errors, api, heap, consumer, perf_real,
                   candle_api>>

\* candle = series[idx]; self._stress_candle_replay_idx[code] = idx + 1
StAdvance ==
    /\ pc["bg"] = "st_advance"
    /\ Access("bg", {"stress_idx"})
    /\ stress_idx' = Put(stress_idx, bgTargets[bgK].code, bgIdx + 1)
    /\ lkVal' = [lkVal EXCEPT !["bg"] = bgSeries[bgIdx + 1]]
    /\ pc' = [pc EXCEPT !["bg"] = "st_enter2"]
    /\ UNCHANGED <<stocks, stock_by_code, candles, candle_idx,
                   candle_req_queue, candle_req_set, rt_connected,
                   rt_subscribed, account_no, exec_connected, stop,
                   stress_override, stress_enabled, stress_cycle,
                   market_open, srvSub, ecRaw, ecCodes, ecRet, ecI, subCodes,
                   subOk, bgStage, bgCode, bgTargets, bgK, bgSeries, bgIdx,
                   bgResp, grid, gridOf, whole, ecClean, ecEnq, ecSub, rtSub,
                   lock, lkCode, lkPrev, snap, committed, numIn, numOut,
                   resolved, locked, sample, bar, symbol, feed, dashboard,
                   holdings, outstanding, dashboard_signature, snapshot,
                   outcome, replay_series, replay_idx, applied, stress_seen,
                   api_calls, api_errors, api, heap, consumer, perf_real,
                   candle_api>>

StEnterRow ==
    /\ pc["bg"] = "st_enter2"
    /\ CanEnter("bg")
    /\ Enter("bg")
    /\ pc' = [pc EXCEPT !["bg"] = "st_price"]
    /\ UNCHANGED <<stocks, stock_by_code, candles, candle_idx,
                   candle_req_queue, candle_req_set, stress_idx,
                   rt_connected, rt_subscribed, account_no, exec_connected,
                   stop, stress_override, stress_enabled, stress_cycle,
                   market_open, srvSub, ecRaw, ecCodes, ecRet, ecI, subCodes,
                   subOk, bgStage, bgCode, bgTargets, bgK, bgSeries, bgIdx,
                   bgResp, grid, gridOf, whole, ecClean, ecEnq, ecSub, rtSub,
                   lkCode, lkVal, lkPrev, snap, committed, bare, numIn,
                   numOut, resolved, locked, sample, bar, symbol, feed,
                   dashboard, holdings, outstanding, dashboard_signature,
                   snapshot, outcome, replay_series, replay_idx, applied,
                   stress_seen, api_calls, api_errors, api, heap, consumer,
                   perf_real, candle_api>>

\* sr = self._stock_by_code.get(code); if not sr: continue;
\* sr["price"] = candle["c"]
StPrice ==
    /\ pc["bg"] = "st_price"
    /\ Access("bg", {"stock_by_code", "stocks"})
    /\ LET code == bgTargets[bgK].code
       IN IF code \notin DOMAIN stock_by_code
          THEN /\ pc' = [pc EXCEPT !["bg"] = "st_leave2"]
               /\ UNCHANGED <<stocks, stock_by_code>>
          ELSE /\ SetRow(code, [stock_by_code[code] EXCEPT !.price = lkVal["bg"]])
               /\ pc' = [pc EXCEPT !["bg"] = "st_count"]
    /\ UNCHANGED <<candles, candle_idx, candle_req_queue, candle_req_set,
                   stress_idx, rt_connected, rt_subscribed, account_no,
                   exec_connected, stop, stress_override, stress_enabled,
                   stress_cycle, market_open, srvSub, ecRaw, ecCodes, ecRet,
                   ecI, subCodes, subOk, bgStage, bgCode, bgTargets, bgK,
                   bgSeries, bgIdx, bgResp, grid, gridOf, whole, ecClean,
                   ecEnq, ecSub, rtSub, lock, lkCode, lkVal, lkPrev, snap,
                   committed, numIn, numOut, resolved, locked, sample, bar,
                   symbol, feed, dashboard, holdings, outstanding,
                   dashboard_signature, snapshot, outcome, replay_series,
                   replay_idx, applied, stress_seen, api_calls, api_errors,
                   api, heap, consumer, perf_real, candle_api>>

\* sr["tick_count"] += 1
StCount ==
    /\ pc["bg"] = "st_count"
    /\ Access("bg", {"stocks"})
    /\ LET s == stock_by_code[bgTargets[bgK].code]
       IN SetRow(s.code, [s EXCEPT !.tick_count = @ + 1])
    /\ pc' = [pc EXCEPT !["bg"] = "st_score"]
    /\ UNCHANGED <<candles, candle_idx, candle_req_queue, candle_req_set,
                   stress_idx, rt_connected, rt_subscribed, account_no,
                   exec_connected, stop, stress_override, stress_enabled,
                   stress_cycle, market_open, srvSub, ecRaw, ecCodes, ecRet,
                   ecI, subCodes, subOk, bgStage, bgCode, bgTargets, bgK,
                   bgSeries, bgIdx, bgResp, grid, gridOf, whole, ecClean,
                   ecEnq, ecSub, rtSub, lock, lkCode, lkVal, lkPrev, snap,
                   committed, numIn, numOut, resolved, locked, sample, bar,
                   symbol, feed, dashboard, holdings, outstanding,
                   dashboard_signature, snapshot, outcome, replay_series,
                   replay_idx, applied, stress_seen, api_calls, api_errors,
                   api, heap, consumer, perf_real, candle_api>>

\* strategy.recompute_scores(sr, rate=rate)
StScore ==
    /\ pc["bg"] = "st_score"
    /\ Access("bg", {"stocks"})
    /\ LET s == stock_by_code[bgTargets[bgK].code]
       IN SetRow(s.code, [s EXCEPT !.frs = Score(s.price, s.tick_count)])
    /\ pc' = [pc EXCEPT !["bg"] = "st_leave2"]
    /\ UNCHANGED <<candles, candle_idx, candle_req_queue, candle_req_set,
                   stress_idx, rt_connected, rt_subscribed, account_no,
                   exec_connected, stop, stress_override, stress_enabled,
                   stress_cycle, market_open, srvSub, ecRaw, ecCodes, ecRet,
                   ecI, subCodes, subOk, bgStage, bgCode, bgTargets, bgK,
                   bgSeries, bgIdx, bgResp, grid, gridOf, whole, ecClean,
                   ecEnq, ecSub, rtSub, lock, lkCode, lkVal, lkPrev, snap,
                   committed, numIn, numOut, resolved, locked, sample, bar,
                   symbol, feed, dashboard, holdings, outstanding,
                   dashboard_signature, snapshot, outcome, replay_series,
                   replay_idx, applied, stress_seen, api_calls, api_errors,
                   api, heap, consumer, perf_real, candle_api>>

StLeaveRow ==
    /\ pc["bg"] = "st_leave2"
    /\ Leave("bg")
    /\ committed' = stock_by_code
    /\ bgK' = bgK + 1
    /\ bgSeries' = <<>>
    /\ bgIdx' = 0
    /\ lkVal' = [lkVal EXCEPT !["bg"] = 0]
    /\ pc' = [pc EXCEPT !["bg"] = "st_series"]
    /\ UNCHANGED <<stocks, stock_by_code, candles, candle_idx,
                   candle_req_queue, candle_req_set, stress_idx,
                   rt_connected, rt_subscribed, account_no, exec_connected,
                   stop, stress_override, stress_enabled, stress_cycle,
                   market_open, srvSub, ecRaw, ecCodes, ecRet, ecI, subCodes,
                   subOk, bgStage, bgCode, bgTargets, bgResp, grid, gridOf,
                   whole, ecClean, ecEnq, ecSub, rtSub, lkCode, lkPrev, snap,
                   bare, numIn, numOut, resolved, locked, sample, bar,
                   symbol, feed, dashboard, holdings, outstanding,
                   dashboard_signature, snapshot, outcome, replay_series,
                   replay_idx, applied, stress_seen, api_calls, api_errors,
                   api, heap, consumer, perf_real, candle_api>>

RunStressTick ==
    \/ StSkip \/ StEnter \/ StTargets \/ StLeave \/ StSeries \/ StCursor
    \/ StAdvance \/ StEnterRow \/ StPrice \/ StCount \/ StScore \/ StLeaveRow

\* The adapter serving with its boot universe: a session, the tick feed
\* connected and subscribed, the market closed.
InitLock ==
    /\ InitAdapter("loaded", Account, TRUE, FALSE, TRUE)
    /\ InitThreads(TRUE)
    /\ market_open = FALSE

\* The updaters of a symbol record by steps (the tick handler, the quote
\* poll, the stress tick, with the candle prefetch that feeds it) against
\* get_stock_detail.
NextLock ==
    \/ OnRealtimeSteps
    \/ RefreshQuotes
    \/ ProcessCandleFetch
    \/ RunStressTick
    \/ GetStockDetail

SpecLock == InitLock /\ [][NextLock]_vars

\* The requests of the maintenance loop (the quote poll, the candle
\* prefetch) by steps against the read methods get_stock_detail and
\* generate_candle.
NextReads ==
    \/ RefreshQuotes
    \/ ProcessCandleFetch
    \/ StSkip
    \/ GetStockDetail
    \/ GenerateCandleSteps

SpecReads == InitLock /\ [][NextReads]_vars

\* ------------------------------------------------- properties of the lock

\* C5: every read and every write of adapter-owned mutable state is made
\* while the caller holds the adapter's lock: no access is on record as made
\* without it.
NoBareAccess == bare = {}

\* What one update makes of the record it finds, applied alone: the tick
\* handler (price if the message has one, scores, tick_count), the quote
\* poll (price; tick_count and scores if the price changed) and the stress
\* tick (price, tick_count, scores).
TickUpdate(row, v) ==
    LET p == IF v > 0 THEN v ELSE row.price
    IN [row EXCEPT !.price = p,
                   !.frs = Score(p, row.tick_count),
                   !.tick_count = @ + 1]

QuoteUpdate(row, v) ==
    IF v > 0 /\ v # row.price
    THEN [row EXCEPT !.price = v,
                     !.tick_count = @ + 1,
                     !.frs = Score(v, row.tick_count + 1)]
    ELSE row

StressUpdate(row, v) ==
    [row EXCEPT !.price = v,
                !.tick_count = @ + 1,
                !.frs = Score(v, row.tick_count + 1)]

\* The code index after one update of the record of code, every other
\* record as the section last left had them.
Applied(code, row) ==
    IF code \in DOMAIN committed
    THEN stock_by_code = [committed EXCEPT ![code] = row]
    ELSE stock_by_code = committed

\* The fields get_stock_detail has read, all of them.
SnapTaken == pc[Consumer] = "d_leave" /\ snap # NoSnap

\* C6: no read observes a torn symbol record, and the updates of one symbol
\* take effect one after the other in the order their lock sections were
\* entered. The record get_stock_detail returns is, field by field, the
\* record the last finished update section left; and an update section,
\* when it is left, has made of the records the last finished section left
\* exactly what its update makes of them applied alone.
UpdatesAreAtomic ==
    /\ [](SnapTaken =>
            LET s == committed[lkCode[Consumer]]
            IN snap = [price |-> s.price, tick_count |-> s.tick_count,
                       frs |-> s.frs])
    /\ [][/\ (pc["rt"] = "t_leave" /\ pc'["rt"] = "recv" /\ lkCode["rt"] \in DOMAIN committed)
              => Applied(lkCode["rt"],
                         TickUpdate(committed[lkCode["rt"]], lkVal["rt"]))
          /\ (pc["bg"] = "q_leave2" /\ pc'["bg"] = "q_next"
                /\ bgTargets[bgK].code \in DOMAIN committed)
              => Applied(bgTargets[bgK].code,
                         QuoteUpdate(committed[bgTargets[bgK].code], lkVal["bg"]))
          /\ (pc["bg"] = "st_leave2" /\ pc'["bg"] = "st_series"
                /\ bgTargets[bgK].code \in DOMAIN committed)
              => Applied(bgTargets[bgK].code,
                         StressUpdate(committed[bgTargets[bgK].code], lkVal["bg"]))
         ]_vars

\* get_stock_detail has read a record that took an update, while the tick
\* handler and the maintenance loop both wait at the lock with an update.
ReadWhileWritersWait ==
    /\ SnapTaken
    /\ snap.tick_count >= 1
    /\ pc["rt"] = "t_enter"
    /\ pc["bg"] \in {"q_enter", "st_enter2"}

\* Positions at which a thread has an HTTP request in flight.
HttpPositions == {"q_http", "cf_http"}

\* C7: consumer reads never wait on network I/O: a thread that holds the
\* lock has no HTTP request in flight, and the read methods of the consumer
\* have none at any of their steps.
NoRequestUnderLock ==
    /\ lock.owner # "" => pc[lock.owner] \notin HttpPositions
    /\ pc[Consumer] \notin HttpPositions

\* generate_candle is inside its section while a request of the
\* maintenance loop is in flight.
ReadDuringRequest ==
    /\ pc["bg"] \in HttpPositions
    /\ pc[Consumer] = "g_step"
    /\ lock.owner = Consumer

\* ------------------------------------------------------- numeric coercion
\* candle_keys._abs_num and the adapter's _to_num / _abs_num, on the values a
\* JSON document can hold in a price field.

\* Longest string tried as a price.
StrLen == 3

\* A Python float: a whole number here, or the NaN that float("nan") gives.
Num(k) == [nan |-> FALSE, v |-> k]
NaN == [nan |-> TRUE, v |-> 0]

\* Python's comparisons: every comparison with NaN is false.
Lt(a, b) == ~a.nan /\ ~b.nan /\ a.v < b.v
Gt(a, b) == Lt(b, a)
Le(a, b) == ~a.nan /\ ~b.nan /\ a.v <= b.v
Ge(a, b) == Le(b, a)

\* abs(x) and x * sign
PyAbs(a) == IF a.nan THEN a ELSE Num(IF a.v < 0 THEN -a.v ELSE a.v)
Times(a, sign) == IF a.nan THEN a ELSE Num(a.v * sign)

\* max(a, b) and min(a, b) keep the first argument unless the second one
\* compares beyond it, so a NaN in first place stays.
PyMax(a, b) == IF Gt(b, a) THEN b ELSE a
PyMin(a, b) == IF Lt(b, a) THEN b ELSE a

\* The characters of the strings tried: digits, signs, the separators the
\* functions remove, and letters.
Digits == {"0", "1", "2", "3"}
Signs == {"-", "+"}
Separators == {",", " "}
Letters == {"n", "a", "x"}
Chars == Digits \cup Signs \cup Separators \cup Letters

Strings(len) == UNION {[1..k -> Chars] : k \in 0..len}

\* A value of a JSON field: null, a number, or a string.
RawNone == [kind |-> "none", num |-> Num(0), str |-> <<>>]
RawNum(x) == [kind |-> "num", num |-> x, str |-> <<>>]
RawStr(s) == [kind |-> "str", num |-> Num(0), str |-> s]

DigitVal(c) == CASE c = "0" -> 0 [] c = "1" -> 1 [] c = "2" -> 2 [] c = "3" -> 3

RECURSIVE Without(_, _)
\* s.replace(c, "") for each c of cs
Without(s, cs) ==
    IF s = <<>> THEN <<>>
    ELSE IF Head(s) \in cs THEN Without(Tail(s), cs)
    ELSE <<Head(s)>> \o Without(Tail(s), cs)

RECURSIVE LStrip(_, _)
\* s.lstrip(c)
LStrip(s, c) ==
    IF s # <<>> /\ Head(s) = c THEN LStrip(Tail(s), c) ELSE s

RECURSIVE Decimal(_)
\* The value of a string of digits.
Decimal(s) ==
    IF s = <<>> THEN 0
    ELSE 10 * Decimal(SubSeq(s, 1, Len(s) - 1)) + DigitVal(s[Len(s)])

\* float(s) on a string without blanks: an optional sign, then digits or
\* "nan"; anything else raises ValueError (ok = FALSE).
FloatOf(s) ==
    LET signed == s # <<>> /\ Head(s) \in Signs
        body == IF signed THEN Tail(s) ELSE s
        sign == IF signed /\ Head(s) = "-" THEN -1 ELSE 1
    IN  IF body # <<>> /\ Range(body) \subseteq Digits
        THEN [ok |-> TRUE, val |-> Num(sign * Decimal(body))]
        ELSE IF body = <<"n", "a", "n">>
        THEN [ok |-> TRUE, val |-> NaN]
        ELSE [ok |-> FALSE, val |-> Num(0)]

\* s.lstrip("0") or "0"
OrZero(s) == IF s = <<>> THEN <<"0">> ELSE s

\* candle_keys._abs_num
CkAbsNum(v) ==
    IF v.kind = "none" THEN Num(0)
    ELSE IF v.kind = "num" THEN PyAbs(v.num)
    ELSE LET s == Without(v.str, Separators)
             t == OrZero(LStrip(Without(s, Signs), "0"))
             f == FloatOf(t)
         IN  IF s = <<>> THEN Num(0)
             ELSE IF f.ok THEN PyAbs(f.val) ELSE Num(0)

RECURSIVE Minuses(_)
\* _to_num: the leading "-" signs the while loop takes off
Minuses(s) ==
    IF s # <<>> /\ Head(s) = "-" THEN 1 + Minuses(Tail(s)) ELSE 0

\* The adapter's _to_num
ToNum(v) ==
    IF v.kind = "none" THEN Num(0)
    ELSE IF v.kind = "num" THEN v.num
    ELSE LET s == Without(v.str, Separators)
             k == Minuses(s)
             sign == IF k % 2 = 1 THEN -1 ELSE 1
             t == OrZero(LStrip(LStrip(LStrip(s, "-"), "+"), "0"))
             f == FloatOf(t)
         IN  IF s = <<>> THEN Num(0)
             ELSE IF f.ok THEN Times(f.val, sign) ELSE Num(0)

\* The number with its sign kept.
SignedNum(v) == ToNum(v)

\* The adapter's _abs_num
AbsNum(v) == PyAbs(ToNum(v))

NoOut == [ck |-> Num(0), ad |-> Num(0), done |-> FALSE]

\* One call of each _abs_num on the same argument.
Coerce ==
    /\ ~numOut.done
    /\ numOut' = [ck |-> CkAbsNum(numIn), ad |-> AbsNum(numIn), done |-> TRUE]
    /\ UNCHANGED <<stocks, stock_by_code, candles, candle_idx,
                   candle_req_queue, candle_req_set, stress_idx,
                   rt_connected, rt_subscribed, account_no, exec_connected,
                   stop, stress_override, stress_enabled, stress_cycle,
                   market_open, srvSub, pc, ecRaw, ecCodes, ecRet, ecI,
                   subCodes, subOk, bgStage, bgCode, bgTargets, bgK,
                   bgSeries, bgIdx, bgResp, grid, gridOf, whole, ecClean,
                   ecEnq, ecSub, rtSub, lock, lkCode, lkVal, lkPrev, snap,
                   committed, bare, numIn, resolved, locked, sample, bar,
                   symbol, feed, dashboard, holdings, outstanding,
                   dashboard_signature, snapshot, outcome, replay_series,
                   replay_idx, applied, stress_seen, api_calls, api_errors,
                   api, heap, consumer, perf_real, candle_api>>

NumValues == {RawNone, RawNum(Num(0)), RawNum(Num(2)), RawNum(Num(-2)), RawNum(NaN)}

InitNum ==
    /\ KeysAtRest
    /\ KeysIdle
    /\ numIn \in NumValues \cup {RawStr(s) : s \in Strings(StrLen)}
    /\ numOut = NoOut

NextNum == Coerce

SpecNum == InitNum /\ [][NextNum]_vars

\* ------------------------------------------------------------------- C15

\* A digit string with optional thousands separators and blanks.
DigitForm(s) ==
    /\ Range(s) \subseteq Digits \cup Separators
    /\ Range(s) \cap Digits # {}

\* A string that holds a letter is no number.
NotNumber(s) == Range(s) \cap Letters # {}

SignPrefixes == {<<"-">>, <<"+">>, <<"-", "-">>}

\* "-d", "+d" and "--d" coerce to what "d" coerces to, in both functions.
SignsDropped ==
    (numOut.done /\ numIn.kind = "str" /\ DigitForm(numIn.str)) =>
        \A p \in SignPrefixes :
            /\ CkAbsNum(RawStr(p \o numIn.str)) = numOut.ck
            /\ AbsNum(RawStr(p \o numIn.str)) = numOut.ad

\* Neither function returns a negative value.
NeverNegative ==
    numOut.done => ~Lt(numOut.ck, Num(0)) /\ ~Lt(numOut.ad, Num(0))

\* A string that is not a number coerces to 0 in both functions.
NonNumbersGiveZero ==
    (numOut.done /\ numIn.kind = "str" /\ NotNumber(numIn.str)) =>
        numOut.ck = Num(0) /\ numOut.ad = Num(0)

\* C15: for every digit string d with optional thousands separators and
\* blanks, "-d", "+d" and "--d" coerce to the value of "d"; the result is
\* never negative; a string that is not a number coerces to 0; for
\* candle_keys._abs_num and for the adapter's _abs_num.
CoercionNormalisesSign ==
    SignsDropped /\ NeverNegative /\ NonNumbersGiveZero

\* The two functions were applied to a signed price with a separator.
SignedPriceCoerced ==
    /\ numOut.done
    /\ numIn = RawStr(<<"-", "1", ",">>)
    /\ numOut.ck = Num(1) /\ numOut.ad = Num(1)

\* ------------------------------------------------------------ CandleKeyMap
\* candle_keys.CandleKeyMap: resolved and _locked, detect() and parse().

Roles == {"time", "open", "high", "low", "close", "volume"}

\* CandleKeyMap.CANDIDATES, each list in its order (the Korean names as the
\* source spells them).
CANDIDATES ==
    [time   |-> <<"time", "date", "t", "timestamp", "\\uccb4\\uacb0\\uc2dc\\uac04",
                  "\\uc77c\\uc790", "Date", "Time">>,
     open   |-> <<"open", "o", "Open", "\\uc2dc\\uac00", "start_price", "OPEN">>,
     high   |-> <<"high", "h", "High", "\\uace0\\uac00", "max_price", "HIGH">>,
     low    |-> <<"low", "l", "Low", "\\uc800\\uac00", "min_price", "LOW">>,
     close  |-> <<"close", "c", "Close", "\\ud604\\uc7ac\\uac00", "\\uc885\\uac00",
                  "last_price", "CLOSE">>,
     volume |-> <<"volume", "v", "Volume", "vol", "\\uac70\\ub798\\ub7c9",
                  "cumVolume", "VOL", "VOLUME">>]

\* detect: sample[c] not in (None, "", " ")
Unset == {RawNone, RawStr(<<>>), RawStr(<<" ">>)}
Present(s, c) == c \in DOMAIN s /\ s[c] \notin Unset

\* detect: the candidates of a role that the sample holds, as positions.
Hits(s, role) == {i \in DOMAIN CANDIDATES[role] : Present(s, CANDIDATES[role][i])}

\* detect: found, the first present candidate of each role that has one.
Found(s) ==
    [role \in {r \in Roles : Hits(s, r) # {}} |->
        CANDIDATES[role][CHOOSE i \in Hits(s, role) : \A j \in Hits(s, role) : i <= j]]

\* detect without its early return for a locked map.
Redetect(res, lk, s) ==
    IF "close" \notin DOMAIN Found(s)
    THEN [ok |-> FALSE, resolved |-> res, locked |-> lk]
    ELSE [ok |-> TRUE, resolved |-> Found(s), locked |-> TRUE]

\* detect storing what it found before it looks for close.
KeepsPartial(res, lk, s) ==
    IF lk THEN [ok |-> TRUE, resolved |-> res, locked |-> TRUE]
    ELSE [ok |-> "close" \in DOMAIN Found(s), resolved |-> Found(s),
          locked |-> "close" \in DOMAIN Found(s)]

\* CandleKeyMap.detect: what it returns and the map it leaves.
Detect(res, lk, s) ==
    IF lk THEN [ok |-> TRUE, resolved |-> res, locked |-> TRUE]
    ELSE IF "close" \notin DOMAIN Found(s)
    THEN [ok |-> FALSE, resolved |-> res, locked |-> FALSE]
    ELSE [ok |-> TRUE, resolved |-> Found(s), locked |-> TRUE]

\* row.get(self.resolved.get(role, ""), 0)
Field(res, r, role) ==
    IF role \in DOMAIN res /\ res[role] \in DOMAIN r
    THEN r[res[role]] ELSE RawNum(Num(0))

NoBar == [some |-> FALSE, o |-> Num(0), h |-> Num(0), l |-> Num(0),
          c |-> Num(0), v |-> Num(0)]

\* parse: the bar built once the map is locked (res) and close was read.
\* The time stamp "t" of the bar is the stripped text of the time field
\* and enters no comparison; it is left out.
Bar(res, r) ==
    LET c   == CkAbsNum(Field(res, r, "close"))
        o0  == CkAbsNum(Field(res, r, "open"))
        h0  == CkAbsNum(Field(res, r, "high"))
        lo0 == CkAbsNum(Field(res, r, "low"))
        v   == CkAbsNum(Field(res, r, "volume"))
        o   == IF Le(o0, Num(0)) THEN c ELSE o0
        h1  == IF Le(h0, Num(0)) THEN PyMax(o, c) ELSE h0
        lo1 == IF Le(lo0, Num(0))
               THEN (IF Gt(PyMin(o, c), Num(0)) THEN PyMin(o, c) ELSE c)
               ELSE lo0
        h   == PyMax(PyMax(h1, o), c)
        lo  == PyMin(PyMin(lo1, o), c)
    IN  IF Le(c, Num(0)) THEN NoBar
        ELSE [some |-> TRUE, o |-> o, h |-> h, l |-> lo, c |-> c, v |-> v]

\* CandleKeyMap.parse: the bar it returns (some = FALSE: None) and the map
\* it leaves.
Parse(res, lk, r) ==
    LET d == IF lk THEN [ok |-> TRUE, resolved |-> res, locked |-> TRUE]
             ELSE Detect(res, lk, r)
    IN  [resolved |-> d.resolved, locked |-> d.locked,
         bar |-> IF d.ok THEN Bar(d.resolved, r) ELSE NoBar]

\* Rows and samples: every choice of a value, or of no entry, for each key.
RowsOver(keys, values) == UNION {[ks -> values] : ks \in SUBSET keys}

Call(name, b) == [call |-> name, ret |-> b]

\* One call of detect(s) / of parse(r) on the key map.
DetectOn(s) ==
    LET d == Detect(resolved, locked, s)
    IN  /\ sample' = s
        /\ resolved' = d.resolved
        /\ locked' = d.locked
        /\ bar' = Call("detect", [NoBar EXCEPT !.some = d.ok])
        /\ UNCHANGED <<stocks, stock_by_code, candles, candle_idx,
                       candle_req_queue, candle_req_set, stress_idx,
                       rt_connected, rt_subscribed, account_no,
                       exec_connected, stop, stress_override, stress_enabled,
                       stress_cycle, market_open, srvSub, pc, ecRaw, ecCodes,
                       ecRet, ecI, subCodes, subOk, bgStage, bgCode,
                       bgTargets, bgK, bgSeries, bgIdx, bgResp, grid, gridOf,
                       whole, ecClean, ecEnq, ecSub, rtSub, lock, lkCode,
                       lkVal, lkPrev, snap, committed, bare, numIn, numOut,
                       symbol, feed, dashboard, holdings, outstanding,
                       dashboard_signature, snapshot, outcome, replay_series,
                       replay_idx, applied, stress_seen, api_calls,
                       api_errors, api, heap, consumer, perf_real, candle_api>>

ParseOn(r) ==
    LET p == Parse(resolved, locked, r)
    IN  /\ sample' = r
        /\ resolved' = p.resolved
        /\ locked' = p.locked
        /\ bar' = Call("parse", p.bar)
        /\ UNCHANGED <<stocks, stock_by_code, candles, candle_idx,
                       candle_req_queue, candle_req_set, stress_idx,
                       rt_connected, rt_subscribed, account_no,
                       exec_connected, stop, stress_override, stress_enabled,
                       stress_cycle, market_open, srvSub, pc, ecRaw, ecCodes,
                       ecRet, ecI, subCodes, subOk, bgStage, bgCode,
                       bgTargets, bgK, bgSeries, bgIdx, bgResp, grid, gridOf,
                       whole, ecClean, ecEnq, ecSub, rtSub, lock, lkCode,
                       lkVal, lkPrev, snap, committed, bare, numIn, numOut,
                       symbol, feed, dashboard, holdings, outstanding,
                       dashboard_signature, snapshot, outcome, replay_series,
                       replay_idx, applied, stress_seen, api_calls,
                       api_errors, api, heap, consumer, perf_real, candle_api>>

\* --- parse on any row, from any state the key map can be in (SpecParse)

PriceKeys == {"close", "c", "open", "high", "low"}
PriceValues == {RawNone, RawStr(<<"1">>), RawStr(<<"-", "2">>), RawStr(<<"n", "a", "n">>)}
PriceRows == RowsOver(PriceKeys, PriceValues)

\* The maps detect can lock from these rows.
LockedMaps == {Found(s) : s \in {r \in PriceRows : "close" \in DOMAIN Found(r)}}

ParseRow ==
    /\ bar.call = "none"
    /\ ParseOn(sample)

InitParse ==
    /\ KeysAtRest
    /\ NumIdle
    /\ locked \in BOOLEAN
    /\ resolved \in (IF locked THEN LockedMaps ELSE {EmptyMap})
    /\ sample \in PriceRows
    /\ bar = Call("none", NoBar)

NextParse == ParseRow

SpecParse == InitParse /\ [][NextParse]_vars

\* --- any sequence of detect and parse calls on a new key map (SpecKeys)

SampleKeys == {"close", "c", "open", "o"}
SampleValues == {RawNone, RawStr(<<" ">>), RawStr(<<"1">>)}
Samples == RowsOver(SampleKeys, SampleValues)

DetectCall == \E s \in Samples : DetectOn(s)
ParseCall == \E r \in Samples : ParseOn(r)

\* CandleKeyMap.__init__
InitKeys ==
    /\ KeysAtRest
    /\ NumIdle
    /\ resolved = EmptyMap
    /\ locked = FALSE
    /\ sample = EmptyMap
    /\ bar = Call("none", NoBar)

NextKeys == DetectCall \/ ParseCall

SpecKeys == InitKeys /\ [][NextKeys]_vars

\* ------------------------------------------------------------- C12 - C14

\* C12: a bar returned by parse has close > 0, high >= max(open, close) and
\* low <= min(open, close); parse returns none exactly when the map cannot
\* be locked from the row or the coerced close is <= 0.
ParsedBarIsSane ==
    bar.call = "parse" =>
        /\ bar.ret.some =>
              /\ Gt(bar.ret.c, Num(0))
              /\ Ge(bar.ret.h, bar.ret.o) /\ Ge(bar.ret.h, bar.ret.c)
              /\ Le(bar.ret.l, bar.ret.o) /\ Le(bar.ret.l, bar.ret.c)
        /\ ~bar.ret.some <=>
              \/ ~locked
              \/ Le(CkAbsNum(Field(resolved, sample, "close")), Num(0))

\* ------------------------------------------------------------- C13, C14
\* C13: once detect has succeeded the map stays locked and resolved never
\* changes again, whatever sample a later detect or parse call is given.
LockedMapIsFrozen ==
    [][locked => locked' /\ resolved' = resolved]_vars

\* A map locked on "c" alone was later given a sample that names close and
\* open by other fields.
LockedMapSawOtherNames ==
    /\ locked
    /\ resolved = [close |-> "c"]
    /\ Present(sample, "close") /\ Present(sample, "open")
    /\ ~Present(sample, "c")

\* resolved names, for each role, the first candidate the sample holds, and
\* no role the sample holds no candidate of.
FirstCandidates(res, s) ==
    \A role \in Roles :
        IF Hits(s, role) = {} THEN role \notin DOMAIN res
        ELSE /\ role \in DOMAIN res
             /\ \E i \in Hits(s, role) :
                   /\ res[role] = CANDIDATES[role][i]
                   /\ \A j \in 1..(i - 1) : ~Present(s, CANDIDATES[role][j])

\* C14: detect on a sample without a present close candidate returns false
\* and leaves the map unlocked with resolved unchanged; while the map is
\* unlocked every parse returns none; the first sample that resolves close
\* locks the map with the first present candidate of each role.
DetectNeedsClose ==
    /\ [][(~locked /\ bar'.call = "detect" /\ Hits(sample', "close") = {})
            => (~bar'.ret.some /\ ~locked' /\ resolved' = resolved)]_vars
    /\ [](~locked /\ bar.call = "parse" => ~bar.ret.some)
    /\ [][(~locked /\ Hits(sample', "close") # {})
            => (locked' /\ FirstCandidates(resolved', sample'))]_vars

\* The map was locked by a sample that holds both "close" and "c", a null
\* "open" and a usable "o".
LockedByFirstCandidates ==
    /\ locked
    /\ Present(sample, "close") /\ Present(sample, "c")
    /\ "open" \in DOMAIN sample /\ ~Present(sample, "open") /\ Present(sample, "o")
    /\ resolved = [close |-> "close", open |-> "o"]

\* ------------------------------------------------------ recompute_scores
\* strategy.recompute_scores on one row. Prices, volumes, rates and scores
\* are counted in hundredths (1.0 is Num(100)); a division rounds down.

\* x * p / q rounded down, without forming x * p
MulDiv(x, p, q) == (x \div q) * p + ((x % q) * p) \div q

\* a + b, a * p / q and a / b on Python floats
Plus(a, b) == IF a.nan \/ b.nan THEN NaN ELSE Num(a.v + b.v)
Scaled(a, p, q) == IF a.nan THEN NaN ELSE Num(MulDiv(a.v, p, q))
Ratio(a, b) == IF a.nan \/ b.nan THEN NaN ELSE Num(MulDiv(a.v, 100, b.v))

\* s.get(key, d) or d
OrDefault(x, d) == IF x = Num(0) THEN Num(d) ELSE x

\* A score cut off above only.
CappedOnly(hi, x) == PyMin(Num(hi), x)

\* max(0.0, min(hi, x))
Clamp(hi, x) == PyMax(Num(0), PyMin(Num(hi), x))

\* recompute_scores(s, rate, diff, intensity): the row it leaves.
RecomputeScores(s, rate0, diff, intensity) ==
    LET p    == PyAbs(OrDefault(s.price, 0))
        op   == PyAbs(OrDefault(s.open_price, 0))
        rate == IF rate0 = Num(0) /\ Gt(op, Num(0)) /\ Gt(p, Num(0))
                THEN Num(MulDiv(p.v - op.v, 10000, op.v)) ELSE rate0
        abs_rate == PyAbs(rate)
        vol  == PyAbs(OrDefault(s.volume_acc, 0))
        a5   == PyMax(Num(100), PyAbs(OrDefault(s.avg5d, 100000)))
        tc   == PyMax(Num(100), PyAbs(OrDefault(Num(s.tick_count * 100), 100)))
        vr   == IF Gt(a5, Num(0)) THEN Ratio(vol, a5) ELSE Num(0)
        \* tc / (a5 * 0.0385)
        pace == Scaled(Ratio(tc, a5), 10000, 385)
        tes  == Clamp(300,
                   Plus(Plus(Scaled(abs_rate, 10, 25), Scaled(intensity, 1, 200)),
                        Scaled(PyMin(pace, Num(100)), 5, 10)))
        hms  == Clamp(100,
                   Plus(Scaled(Plus(Scaled(rate, 1, 10), Num(50)), 6, 10),
                        Scaled(PyMin(vr, Num(100)), 4, 10)))
        bms  == Clamp(100,
                   Plus(Scaled(Scaled(abs_rate, 1, 5), 5, 10),
                        Scaled(PyMin(Scaled(intensity, 1, 120), Num(100)), 5, 10)))
        sls  == Clamp(100,
                   Plus(Scaled(PyMin(Num(100), Scaled(vol, 1, 5000000)), 7, 10),
                        Scaled(PyMin(vr, Num(100)), 3, 10)))
        ucs  == Clamp(100,
                   Plus(Plus(Scaled(hms, 4, 10), Scaled(bms, 35, 100)),
                        Scaled(sls, 25, 100)))
        frs  == Clamp(250,
                   Plus(Plus(Scaled(tes, 5, 10), ucs),
                        Scaled(PyMin(pace, Num(150)), 3, 10)))
        axes == Cardinality({x \in {"hms", "bms", "sls"} :
                    Ge((CASE x = "hms" -> hms [] x = "bms" -> bms [] x = "sls" -> sls),
                       Num(40))})
    IN  [s EXCEPT !.tes = tes, !.hms = hms, !.bms = bms, !.sls = sls,
                  !.ucs = ucs, !.frs = frs, !.axes = axes]

\* The row _load_stocks_by_codes builds for a symbol whose last price is base.
FreshSymbol(base) ==
    [price |-> Num(base), open_price |-> Num(base), high |-> Num(base),
     low |-> Num(base), volume_acc |-> Num(0), tick_count |-> 0,
     avg5d |-> Num(100000),
     tes |-> Num(0), ucs |-> Num(0), frs |-> Num(0), hms |-> Num(0),
     bms |-> Num(0), sls |-> Num(0), axes |-> 0, placeholder |-> FALSE]

\* The row _bootstrap_universe appends for an empty universe. The literal
\* names "high" and "low" twice; the later value, 0, is the one kept.
PlaceholderSymbol ==
    [price |-> Num(100), open_price |-> Num(100), high |-> Num(0),
     low |-> Num(0), volume_acc |-> Num(0), tick_count |-> 0,
     avg5d |-> Num(100),
     tes |-> Num(0), ucs |-> Num(0), frs |-> Num(0), hms |-> Num(0),
     bms |-> Num(0), sls |-> Num(0), axes |-> 0, placeholder |-> TRUE]

\* Rows as the updates can have left them before the scores are recomputed.
ScorePrices == {Num(100), Num(9000), Num(10000), NaN}
ScoreVolumes == {Num(0), Num(40000), Num(600000000)}
ScoreTicks == {0, 1, 60}
ScoreRows ==
    {[r EXCEPT !.price = p, !.volume_acc = v, !.tick_count = k] :
        r \in {FreshSymbol(10000), PlaceholderSymbol},
        p \in ScorePrices, v \in ScoreVolumes, k \in ScoreTicks}

\* rate, diff and intensity as a caller can pass them
ScoreRates == {Num(0), Num(-4000), Num(-100), Num(300), Num(4000), NaN}
ScoreIntensities == {Num(0), Num(-30000), Num(9000), Num(70000), NaN}
ScoreArgs == [rate : ScoreRates, diff : {Num(0), Num(-50000)}, intensity : ScoreIntensities]

\* One call of recompute_scores on the row.
Recompute ==
    /\ ~feed.done
    /\ symbol' = RecomputeScores(symbol, feed.args.rate, feed.args.diff, feed.args.intensity)
    /\ feed' = [feed EXCEPT !.done = TRUE]
    /\ UNCHANGED <<stocks, stock_by_code, candles, candle_idx,
                   candle_req_queue, candle_req_set, stress_idx,
                   rt_connected, rt_subscribed, account_no, exec_connected,
                   stop, stress_override, stress_enabled, stress_cycle,
                   market_open, srvSub, pc, ecRaw, ecCodes, ecRet, ecI,
                   subCodes, subOk, bgStage, bgCode, bgTargets, bgK,
                   bgSeries, bgIdx, bgResp, grid, gridOf, whole, ecClean,
                   ecEnq, ecSub, rtSub, lock, lkCode, lkVal, lkPrev, snap,
                   committed, bare, numIn, numOut, resolved, locked, sample,
                   bar, dashboard, holdings, outstanding,
                   dashboard_signature, snapshot, outcome, replay_series,
                   replay_idx, applied, stress_seen, api_calls, api_errors,
                   api, heap, consumer, perf_real, candle_api>>

InitScores ==
    /\ AdapterAtRest
    /\ NumIdle /\ KeysIdle
    /\ symbol \in ScoreRows
    /\ feed \in [args : ScoreArgs, done : {FALSE}]

NextScores == Recompute

SpecScores == InitScores /\ [][NextScores]_vars

\* ------------------------------------------------------------------- C16

Within(x, hi) == Ge(x, Num(0)) /\ Le(x, Num(hi))

\* C16: in every state tes is in [0, 3], frs in [0, 2.5], ucs, hms, bms and
\* sls in [0, 1], and axes is the number of hms, bms, sls that are >= 0.4;
\* for new rows, placeholder rows and rows after recompute_scores with any
\* rate, diff and intensity, negative ones included.
ScoresStayInRange ==
    /\ Within(symbol.tes, 300)
    /\ Within(symbol.frs, 250)
    /\ \A x \in {symbol.ucs, symbol.hms, symbol.bms, symbol.sls} : Within(x, 100)
    /\ symbol.axes = Cardinality({k \in {"hms", "bms", "sls"} :
                        Ge((CASE k = "hms" -> symbol.hms [] k = "bms" -> symbol.bms
                              [] k = "sls" -> symbol.sls), Num(40))})

\* Scores were recomputed from a falling rate and a negative intensity.
ScoresClampedAtZero ==
    /\ feed.done
    /\ feed.args.rate = Num(-4000) /\ feed.args.intensity = Num(-30000)
    /\ symbol.hms = Num(0) /\ symbol.axes = 1

\* ------------------------------------------------- the price fields of a row
\* What the tick feed, the quote poll, the stress replay and generate_candle
\* do to price, open_price, high and low of one row. Each runs inside one
\* lock section. The other fields they write (volume_acc, tick_count and,
\* through recompute_scores, the scores) are never read back into these
\* four and are left out; prices are whole numbers here.

RT_PRICE_KEYS == <<"current_price", "price", "\\ud604\\uc7ac\\uac00">>
RT_OPEN_KEYS == <<"open", "\\uc2dc\\uac00">>
RT_HIGH_KEYS == <<"high", "\\uace0\\uac00">>
RT_LOW_KEYS == <<"low", "\\uc800\\uac00">>

\* _first_valid(d, keys, 0)
FirstValid(d, keys) ==
    LET hits == {i \in DOMAIN keys : Present(d, keys[i])}
    IN  IF hits = {} THEN RawNum(Num(0))
        ELSE d[keys[CHOOSE i \in hits : \A j \in hits : i <= j]]

PriceFields == {"price", "open_price", "high", "low"}

\* The four fields of the row _load_stocks_by_codes builds (all equal base)
\* and of the row _bootstrap_universe appends.
FreshPrices(base) ==
    [price |-> Num(base), open_price |-> Num(base), high |-> Num(base),
     low |-> Num(base), placeholder |-> FALSE]
PlaceholderPrices ==
    [price |-> Num(1), open_price |-> Num(1), high |-> Num(0), low |-> Num(0),
     placeholder |-> TRUE]

\* _on_realtime: the row after the message data
TickPrices(s, data) ==
    LET price == AbsNum(FirstValid(data, RT_PRICE_KEYS))
        op    == AbsNum(FirstValid(data, RT_OPEN_KEYS))
        hi    == AbsNum(FirstValid(data, RT_HIGH_KEYS))
        lo    == AbsNum(FirstValid(data, RT_LOW_KEYS))
    IN  [s EXCEPT
           !.price = IF Gt(price, Num(0)) THEN price ELSE @,
           !.open_price = IF Gt(op, Num(0)) THEN op ELSE @,
           !.high = IF Gt(hi, Num(0)) THEN PyMax(@, hi) ELSE @,
           !.low = IF Gt(lo, Num(0))
                   THEN (IF Gt(@, Num(0)) THEN PyMin(@, lo) ELSE lo)
                   ELSE @]

\* _refresh_quotes: the row after the symbol response d
QuotePrices(s, d) ==
    LET price == AbsNum(FirstValid(d, RT_PRICE_KEYS \o <<"last_price">>))
        op    == AbsNum(FirstValid(d, RT_OPEN_KEYS))
    IN  [s EXCEPT
           !.price = IF Gt(price, Num(0)) THEN price ELSE @,
           !.open_price = IF Gt(op, Num(0)) THEN op ELSE @]

\* _run_stress_tick: the row after the replayed candle
StressPrices(s, candle) ==
    [s EXCEPT
       !.price = candle.c,
       !.open_price = IF Gt(candle.o, Num(0)) THEN candle.o ELSE @,
       !.high = PyMax(@, candle.h),
       !.low = IF Gt(@, Num(0)) THEN PyMin(@, candle.l) ELSE candle.l]

\* generate_candle: the row after the bar of the series it returned
CandlePrices(s, candle) == [s EXCEPT !.price = candle.c]

\* What the server can put into a price field, and the data it sends.
WireValues == {RawStr(<<"-", "3">>), RawStr(<<"1">>), RawStr(<<"n", "a", "n">>)}
TickData == RowsOver({"price", "open", "high", "low"}, WireValues)
QuoteData == RowsOver({"price", "last_price", "open"}, WireValues)

\* The bars _parse_rows can put into a series: what parse returns for a row.
CandleBars ==
    {b \in {Parse(EmptyMap, FALSE, r).bar :
               r \in RowsOver({"close", "open", "high", "low"}, WireValues)} : b.some}

Fed(kind, value) == [kind |-> kind, price |-> value]

\* _on_realtime for a message that names the row
TickFeedUpdate ==
    \E data \in TickData :
        /\ symbol' = TickPrices(symbol, data)
        /\ feed' = Fed("tick", FirstValid(data, RT_PRICE_KEYS))
        /\ UNCHANGED <<stocks, stock_by_code, candles, candle_idx,
                       candle_req_queue, candle_req_set, stress_idx,
                       rt_connected, rt_subscribed, account_no,
                       exec_connected, stop, stress_override, stress_enabled,
                       stress_cycle, market_open, srvSub, pc, ecRaw, ecCodes,
                       ecRet, ecI, subCodes, subOk, bgStage, bgCode,
                       bgTargets, bgK, bgSeries, bgIdx, bgResp, grid, gridOf,
                       whole, ecClean, ecEnq, ecSub, rtSub, lock, lkCode,
                       lkVal, lkPrev, snap, committed, bare, numIn, numOut,
                       resolved, locked, sample, bar, dashboard, holdings,
                       outstanding, dashboard_signature, snapshot, outcome,
                       replay_series, replay_idx, applied, stress_seen,
                       api_calls, api_errors, api, heap, consumer, perf_real,
                       candle_api>>

\* _refresh_quotes, the lock section for the row
QuotePollUpdate ==
    \E d \in QuoteData :
        /\ symbol' = QuotePrices(symbol, d)
        /\ feed' = Fed("quote", FirstValid(d, RT_PRICE_KEYS \o <<"last_price">>))
        /\ UNCHANGED <<stocks, stock_by_code, candles, candle_idx,
                       candle_req_queue, candle_req_set, stress_idx,
                       rt_connected, rt_subscribed, account_no,
                       exec_connected, stop, stress_override, stress_enabled,
                       stress_cycle, market_open, srvSub, pc, ecRaw, ecCodes,
                       ecRet, ecI, subCodes, subOk, bgStage, bgCode,
                       bgTargets, bgK, bgSeries, bgIdx, bgResp, grid, gridOf,
                       whole, ecClean, ecEnq, ecSub, rtSub, lock, lkCode,
                       lkVal, lkPrev, snap, committed, bare, numIn, numOut,
                       resolved, locked, sample, bar, dashboard, holdings,
                       outstanding, dashboard_signature, snapshot, outcome,
                       replay_series, replay_idx, applied, stress_seen,
                       api_calls, api_errors, api, heap, consumer, perf_real,
                       candle_api>>

\* _run_stress_tick, the lock section for the row
StressReplayUpdate ==
    \E candle \in CandleBars :
        /\ symbol' = StressPrices(symbol, candle)
        /\ feed' = Fed("stress", RawNum(candle.c))
        /\ UNCHANGED <<stocks, stock_by_code, candles, candle_idx,
                       candle_req_queue, candle_req_set, stress_idx,
                       rt_connected, rt_subscribed, account_no,
                       exec_connected, stop, stress_override, stress_enabled,
                       stress_cycle, market_open, srvSub, pc, ecRaw, ecCodes,
                       ecRet, ecI, subCodes, subOk, bgStage, bgCode,
                       bgTargets, bgK, bgSeries, bgIdx, bgResp, grid, gridOf,
                       whole, ecClean, ecEnq, ecSub, rtSub, lock, lkCode,
                       lkVal, lkPrev, snap, committed, bare, numIn, numOut,
                       resolved, locked, sample, bar, dashboard, holdings,
                       outstanding, dashboard_signature, snapshot, outcome,
                       replay_series, replay_idx, applied, stress_seen,
                       api_calls, api_errors, api, heap, consumer, perf_real,
                       candle_api>>

\* generate_candle on the row: a placeholder and an empty series return
\* without a write.
GenerateCandleUpdate ==
    /\ ~symbol.placeholder
    /\ \E candle \in CandleBars :
        /\ symbol' = CandlePrices(symbol, candle)
        /\ feed' = Fed("candle", RawNum(candle.c))
    /\ UNCHANGED <<stocks, stock_by_code, candles, candle_idx,
                   candle_req_queue, candle_req_set, stress_idx,
                   rt_connected, rt_subscribed, account_no, exec_connected,
                   stop, stress_override, stress_enabled, stress_cycle,
                   market_open, srvSub, pc, ecRaw, ecCodes, ecRet, ecI,
                   subCodes, subOk, bgStage, bgCode, bgTargets, bgK,
                   bgSeries, bgIdx, bgResp, grid, gridOf, whole, ecClean,
                   ecEnq, ecSub, rtSub, lock, lkCode, lkVal, lkPrev, snap,
                   committed, bare, numIn, numOut, resolved, locked, sample,
                   bar, dashboard, holdings, outstanding,
                   dashboard_signature, snapshot, outcome, replay_series,
                   replay_idx, applied, stress_seen, api_calls, api_errors,
                   api, heap, consumer, perf_real, candle_api>>

InitRows ==
    /\ AdapterAtRest
    /\ NumIdle /\ KeysIdle
    /\ symbol \in {FreshPrices(2), PlaceholderPrices}
    /\ feed = Fed("none", RawNone)

NextRows ==
    \/ TickFeedUpdate
    \/ QuotePollUpdate
    \/ StressReplayUpdate
    \/ GenerateCandleUpdate

SpecRows == InitRows /\ [][NextRows]_vars

\* ------------------------------------------------------------- C17, C18

\* C17: in every state price, open_price, high and low of every row are
\* non-negative; a signed value in a tick message or a quote response
\* ("-3") is stored as its magnitude; after any sequence of tick feed,
\* quote poll, stress replay and generate_candle steps.
PricesNonNegative ==
    /\ \A f \in PriceFields : Ge(symbol[f], Num(0))
    /\ (feed.kind \in {"tick", "quote"} /\ feed.price = RawStr(<<"-", "3">>))
           => symbol.price = Num(3)

\* The sign part of the claim alone: no field is below zero, and a signed
\* price is stored as its magnitude.
PricesNeverBelowZero ==
    /\ \A f \in PriceFields : ~Lt(symbol[f], Num(0))
    /\ (feed.kind \in {"tick", "quote"} /\ feed.price = RawStr(<<"-", "3">>))
           => symbol.price = Num(3)

\* C18: every row that is no placeholder has high >= max(open_price, price)
\* and low <= min(open_price, price), after any sequence of tick feed
\* updates (with or without high and low), quote poll updates, stress
\* replay updates and generate_candle calls.
PricesInsideHighLow ==
    ~symbol.placeholder =>
        /\ Ge(symbol.high, symbol.open_price) /\ Ge(symbol.high, symbol.price)
        /\ Le(symbol.low, symbol.open_price) /\ Le(symbol.low, symbol.price)

\* ------------------------------------------- AppState.set_dashboard_snapshot
\* app_state.AppState: dashboard, holdings, outstanding and
\* _dashboard_signature under set_dashboard_snapshot.

\* A JSON value: null, a number, a list of values, or an object as the
\* sequence of its members in the order the document lists them. The items
\* of a list carry the empty name.
JNull == [t |-> "null", n |-> 0, items |-> <<>>]
JNum(k) == [t |-> "num", n |-> k, items |-> <<>>]
Member(name, v) == [k |-> name, v |-> v]
JList(vs) == [t |-> "list", n |-> 0, items |-> [i \in DOMAIN vs |-> Member("", vs[i])]]
JDict(ms) == [t |-> "dict", n |-> 0, items |-> ms]

\* The names of the members of an entry, in the order sort_keys puts them.
EntryKeys == <<"code", "qty">>
Rank(name) == CHOOSE i \in DOMAIN EntryKeys : EntryKeys[i] = name

\* json.dumps without sort_keys: members stay as listed.
KeepKeys(ms) == ms

\* json.dumps(..., sort_keys=True) on the members of one object
SortKeys(ms) ==
    [i \in DOMAIN ms |->
        CHOOSE m \in Range(ms) :
            Cardinality({x \in Range(ms) : Rank(x.k) < Rank(m.k)}) = i - 1]

\* The text json.dumps(v, sort_keys=True) writes, as the value it spells:
\* members of objects in the order of their names, items of lists as they
\* come. Values nest two levels here (a list of entries of numbers).
DumpEntry(v) == IF v.t = "dict" THEN [v EXCEPT !.items = SortKeys(v.items)] ELSE v
Dump(v) ==
    IF v.t = "list"
    THEN [v EXCEPT !.items = [i \in DOMAIN v.items |-> Member("", DumpEntry(v.items[i].v))]]
    ELSE DumpEntry(v)

\* The keys set_dashboard_snapshot copies deeply and skips when null.
CopiedKeys == {"Holdings", "Outstanding", "RawBalance", "RawDeposit", "RawOutstanding"}
TotalKeys == {"TotalPurchase", "TotalEvaluation", "TotalPnL", "TotalPnLRate", "RealizedPnL"}

\* merged: the stored dashboard overlaid with the snapshot
Merged(dash, snap0) ==
    LET taken == {k \in DOMAIN snap0 : k \in CopiedKeys => snap0[k] # JNull}
    IN  [k \in DOMAIN dash \cup taken |-> IF k \in taken THEN snap0[k] ELSE dash[k]]

\* signature_target and its dump: new_signature
Signature(merged) ==
    [empty     |-> FALSE,
     AccountNo |-> Get(merged, "AccountNo", JNull),
     FetchedAt |-> Get(merged, "FetchedAt", JNull),
     Totals    |-> [k \in TotalKeys |-> Get(merged, k, JNull)],
     Holdings  |-> Dump(Get(merged, "Holdings", JNull)),
     Outstanding |-> Dump(Get(merged, "Outstanding", JNull))]

\* self._dashboard_signature = ""
NoSignature == [Signature(EmptyMap) EXCEPT !.empty = TRUE]

\* A snapshot is published whatever the stored signature is.
AlwaysNew(new, old) == TRUE

\* if new_signature == self._dashboard_signature: return False
IsNew(new, old) == new # old

\* merged.get(key) or []
ListOf(merged, key) ==
    LET v == Get(merged, key, JNull)
    IN  IF v = JNull \/ v.items = <<>> THEN JList(<<>>) ELSE v

\* Two entries with the same members, in whatever order they list them.
SameEntry(x, y) == x.t = y.t /\ x.n = y.n /\ Range(x.items) = Range(y.items)

\* The lists a and b hold the same entries, not all at the same places.
SameEntriesMoved(a, b) ==
    /\ a.t = "list" /\ b.t = "list" /\ Len(a.items) = Len(b.items)
    /\ \E i \in DOMAIN a.items : ~SameEntry(a.items[i].v, b.items[i].v)
    /\ \E f \in [DOMAIN a.items -> DOMAIN a.items] :
          /\ \A i, j \in DOMAIN a.items : f[i] = f[j] => i = j
          /\ \A i \in DOMAIN a.items : SameEntry(a.items[i].v, b.items[f[i]].v)

\* The lists a and b hold the same entries at the same places, some with
\* their members listed in another order.
SameEntriesRespelt(a, b) ==
    /\ a.t = "list" /\ b.t = "list" /\ Len(a.items) = Len(b.items)
    /\ a # b
    /\ \A i \in DOMAIN a.items : SameEntry(a.items[i].v, b.items[i].v)

\* Account id, fetch time and totals of two dashboards agree.
SameHeader(d, m) ==
    \A k \in {"AccountNo", "FetchedAt"} \cup TotalKeys : Get(d, k, JNull) = Get(m, k, JNull)

ListKeys == {"Holdings", "Outstanding"}

\* How the merged dashboard stands to the stored one: its lists hold the
\* same entries in another order ("moved"), or the same entries at the same
\* places spelt with their members in another order ("respelt").
Relation(d, m) ==
    LET moved == {k \in ListKeys : SameEntriesMoved(Get(d, k, JNull), Get(m, k, JNull))}
        respelt == {k \in ListKeys : SameEntriesRespelt(Get(d, k, JNull), Get(m, k, JNull))}
        same == {k \in ListKeys : Get(d, k, JNull) = Get(m, k, JNull)}
    IN  IF ~SameHeader(d, m) THEN "other"
        ELSE IF moved # {} /\ moved \cup same = ListKeys THEN "moved"
        ELSE IF respelt # {} /\ respelt \cup same = ListKeys THEN "respelt"
        ELSE "other"

\* set_dashboard_snapshot(s): the lock section, then the notification of
\* the listeners if the signature was new. repeat and relation record, for
\* the properties, whether s is the argument of the call before and how the
\* merged dashboard stands to the stored one.
SetDashboardSnapshot(s) ==
    LET merged == Merged(dashboard, s)
        new_signature == Signature(merged)
        repeat == s = snapshot /\ outcome.called
        accepted == s # EmptyMap /\ IsNew(new_signature, dashboard_signature)
    IN  /\ snapshot' = s
        /\ IF accepted
           THEN /\ dashboard' = merged
                /\ holdings' = ListOf(merged, "Holdings")
                /\ outstanding' = ListOf(merged, "Outstanding")
                /\ dashboard_signature' = new_signature
           ELSE UNCHANGED <<dashboard, holdings, outstanding, dashboard_signature>>
        /\ outcome' = [called |-> TRUE, ret |-> accepted,
                       emits |-> IF accepted THEN 1 ELSE 0,
                       repeat |-> repeat,
                       relation |-> IF s = EmptyMap THEN "other"
                                    ELSE Relation(dashboard, merged)]
        /\ UNCHANGED <<stocks, stock_by_code, candles, candle_idx,
                       candle_req_queue, candle_req_set, stress_idx,
                       rt_connected, rt_subscribed, account_no,
                       exec_connected, stop, stress_override, stress_enabled,
                       stress_cycle, market_open, srvSub, pc, ecRaw, ecCodes,
                       ecRet, ecI, subCodes, subOk, bgStage, bgCode,
                       bgTargets, bgK, bgSeries, bgIdx, bgResp, grid, gridOf,
                       whole, ecClean, ecEnq, ecSub, rtSub, lock, lkCode,
                       lkVal, lkPrev, snap, committed, bare, numIn, numOut,
                       resolved, locked, sample, bar, symbol, feed,
                       replay_series, replay_idx, applied, stress_seen,
                       api_calls, api_errors, api, heap, consumer, perf_real,
                       candle_api>>

\* Entries of a holdings or orders list: two entries, the first also with
\* its members listed the other way round.
EntryA == JDict(<<Member("code", JNum(1)), Member("qty", JNum(5))>>)
EntryARespelt == JDict(<<Member("qty", JNum(5)), Member("code", JNum(1))>>)
EntryB == JDict(<<Member("code", JNum(2)), Member("qty", JNum(5))>>)

EntryLists ==
    {JList(<<EntryA, EntryB>>), JList(<<EntryB, EntryA>>), JList(<<EntryARespelt, EntryB>>)}

\* The snapshots a dashboard fetch can hand over. "Cash" is a key the
\* signature does not cover.
Optional(key, values) == {EmptyMap} \cup {[k \in {key} |-> v] : v \in values}
Snapshots ==
    {EmptyMap} \cup
    {a @@ f @@ h @@ o @@ c :
        a \in {[k \in {"AccountNo"} |-> JNum(1)]},
        f \in Optional("FetchedAt", {JNum(1), JNum(2)}),
        h \in Optional("Holdings", EntryLists \cup {JNull}),
        o \in Optional("Outstanding", {JList(<<EntryB, EntryA>>)}),
        c \in Optional("Cash", {JNum(7)})}

SetSnapshot == \E s \in Snapshots : SetDashboardSnapshot(s)

\* AppState.__init__
InitDash ==
    /\ AdapterAlone
    /\ NumIdle /\ KeysIdle /\ RowIdle
    /\ dashboard = EmptyMap
    /\ holdings = JList(<<>>)
    /\ outstanding = JList(<<>>)
    /\ dashboard_signature = NoSignature
    /\ snapshot = EmptyMap
    /\ outcome = [called |-> FALSE, ret |-> FALSE, emits |-> 0, repeat |-> FALSE,
                  relation |-> "other"]

NextDash == SetSnapshot

SpecDash == InitDash /\ [][NextDash]_vars

\* ------------------------------------------------------------- C19, C20

\* C19: of two consecutive set_dashboard_snapshot calls with the same
\* non-empty snapshot, the second returns false, notifies nobody and changes
\* no stored field, so the two notify at most once in total; from the empty
\* state the first of them notifies exactly once.
RepeatedSnapshotIsDropped ==
    /\ [](outcome.repeat => ~outcome.ret /\ outcome.emits = 0)
    /\ [][(snapshot' = snapshot /\ outcome.called)
            => UNCHANGED <<dashboard, holdings, outstanding, dashboard_signature>>]_vars
    /\ [][outcome'.emits <= 1]_vars
    /\ [][(dashboard_signature = NoSignature /\ snapshot' # EmptyMap)
            => (outcome'.ret /\ outcome'.emits = 1)]_vars

\* A snapshot with holdings was given a second time.
SnapshotRepeated ==
    /\ outcome.repeat
    /\ "Holdings" \in DOMAIN snapshot /\ snapshot["Holdings"] # JNull
    /\ dashboard["Holdings"] = snapshot["Holdings"]

\* C20 as stated: a snapshot with the same account id, fetch time and
\* totals whose Holdings or Outstanding list holds the same entries in a
\* different order has the stored signature and publishes no notification.
EntryOrderIgnored ==
    outcome.relation = "moved" => ~outcome.ret /\ outcome.emits = 0

\* C20, amended: the signature ignores the order in which an entry lists
\* its members, not the order of the entries: the same entries in another
\* order are published, the same entries at the same places with their
\* members in another order are not.
MemberOrderIgnored ==
    /\ outcome.relation = "moved" => outcome.ret /\ outcome.emits = 1
    /\ outcome.relation = "respelt" => ~outcome.ret /\ outcome.emits = 0

\* A snapshot that lists the members of a stored entry the other way round
\* was dropped.
RespeltSnapshotDropped ==
    /\ outcome.relation = "respelt"
    /\ ~outcome.ret
    /\ dashboard["Holdings"] # snapshot["Holdings"]

\* ------------------------------------------------------------------- C21

\* C21: after any set_dashboard_snapshot(S) call with a non-empty S, whether
\* it returned true or false, the stored dashboard carries the value S gives
\* for every key of S (for the deeply copied keys: every non-null value),
\* keys outside the signature included.
SnapshotAlwaysStored ==
    (outcome.called /\ snapshot # EmptyMap) =>
        \A k \in DOMAIN snapshot :
            (k \in CopiedKeys => snapshot[k] # JNull) =>
                k \in DOMAIN dashboard /\ dashboard[k] = snapshot[k]

\* ------------------------------------------------------------ stress replay
\* Successive _run_stress_tick calls on one symbol whose series is cached
\* and stays as it is: the maintenance loop is the only caller, so the calls
\* follow one another; no reload and no candle fetch replaces the series.

\* Most stress ticks followed.
MaxReplay == 7
\* Longest cached series.
MaxSeries == 3

\* The bars of a series: what parse returns for rows
\* that carry a close only.
ReplayBars == {b \in {Parse(EmptyMap, FALSE, r).bar :
                        r \in RowsOver({"close"}, WireValues)} : b.some}
ReplaySeries == UNION {[1..k -> ReplayBars] : k \in 0..MaxSeries}

ReplayCode == "A"

\* _run_stress_tick, the pass of its loop for the symbol: a symbol without
\* a series is skipped.
ReplayTick ==
    /\ Len(applied) < MaxReplay
    /\ IF replay_series = <<>>
       THEN UNCHANGED <<replay_idx, symbol, applied>>
       ELSE LET idx == ReplayIdx(Get(replay_idx, ReplayCode, 0), Len(replay_series))
                candle == replay_series[idx + 1]
            IN  /\ replay_idx' = Put(replay_idx, ReplayCode, idx + 1)
                /\ symbol' = StressPrices(symbol, candle)
                /\ applied' = Append(applied, candle)
    /\ UNCHANGED <<stocks, stock_by_code, candles, candle_idx,
                   candle_req_queue, candle_req_set, stress_idx,
                   rt_connected, rt_subscribed, account_no, exec_connected,
                   stop, stress_override, stress_enabled, stress_cycle,
                   market_open, srvSub, pc, ecRaw, ecCodes, ecRet, ecI,
                   subCodes, subOk, bgStage, bgCode, bgTargets, bgK,
                   bgSeries, bgIdx, bgResp, grid, gridOf, whole, ecClean,
                   ecEnq, ecSub, rtSub, lock, lkCode, lkVal, lkPrev, snap,
                   committed, bare, numIn, numOut, resolved, locked, sample,
                   bar, feed, dashboard, holdings, outstanding,
                   dashboard_signature, snapshot, outcome, replay_series,
                   stress_seen, api_calls, api_errors, api, heap, consumer,
                   perf_real, candle_api>>

InitReplay ==
    /\ AdapterOnly
    /\ NumIdle /\ KeysIdle /\ DashIdle /\ PolicyIdle /\ ApiIdle /\ HeapIdle /\ PerfRealIdle /\ CandleApiIdle
    /\ symbol = FreshPrices(2)
    /\ feed = <<>>
    /\ replay_series \in ReplaySeries
    /\ replay_idx = EmptyMap
    /\ applied = <<>>

NextReplay == ReplayTick

SpecReplay == InitReplay /\ [][NextReplay]_vars

\* ------------------------------------------------------------------- C22

\* C22: for a symbol whose cached series has length L > 0 and is not
\* replaced, the k-th _run_stress_tick applies series[(k - 1) mod L], so
\* series[0], ..., series[L-1] and then the same again; the row carries the
\* close of the candle applied last; after every L ticks the cursor is past
\* the end, so that the next tick reads position 0.
StressReplayIsPeriodic ==
    LET L == Len(replay_series)
        k == Len(applied)
        cursor == Get(replay_idx, ReplayCode, 0)
    IN  L > 0 =>
          /\ \A i \in 1..k : applied[i] = replay_series[((i - 1) % L) + 1]
          /\ k > 0 => symbol.price = applied[k].c
          /\ (IF cursor >= L THEN 0 ELSE cursor) = k % L

\* A series of three different candles went round twice and began again.
SeriesWentRoundTwice ==
    /\ Len(replay_series) = MaxSeries /\ Len(applied) = 2 * MaxSeries + 1
    /\ \A i, j \in 1..MaxSeries : i # j => replay_series[i] # replay_series[j]
    /\ applied[2 * MaxSeries + 1] = replay_series[1]

\* ------------------------------------------------------------ stress policy
\* stress_active under every PERF_STRESS value, set_stress_enabled called by
\* the toolbar at any time, the market opening and closing.

\* PERF_STRESS as the environment can give it: unset, "1", "0", another text.
Overrides == {"", "1", "0", "on"}

\* set_stress_enabled(v)
SetStressEnabled(v) ==
    /\ stress_enabled' = v
    /\ UNCHANGED <<stocks, stock_by_code, candles, candle_idx,
                   candle_req_queue, candle_req_set, stress_idx,
                   rt_connected, rt_subscribed, account_no, exec_connected,
                   stop, stress_override, stress_cycle, market_open, srvSub,
                   pc, ecRaw, ecCodes, ecRet, ecI, subCodes, subOk, bgStage,
                   bgCode, bgTargets, bgK, bgSeries, bgIdx, bgResp, grid,
                   gridOf, whole, ecClean, ecEnq, ecSub, rtSub, lock, lkCode,
                   lkVal, lkPrev, snap, committed, bare, numIn, numOut,
                   resolved, locked, sample, bar, symbol, feed, dashboard,
                   holdings, outstanding, dashboard_signature, snapshot,
                   outcome, replay_series, replay_idx, applied, stress_seen,
                   api_calls, api_errors, api, heap, consumer, perf_real,
                   candle_api>>

\* The property stress_active is read.
ReadStressActive ==
    /\ stress_seen' = [active |-> StressActive, override |-> stress_override,
                       enabled |-> stress_enabled, market_open |-> market_open]
    /\ UNCHANGED <<stocks, stock_by_code, candles, candle_idx,
                   candle_req_queue, candle_req_set, stress_idx,
                   rt_connected, rt_subscribed, account_no, exec_connected,
                   stop, stress_override, stress_enabled, stress_cycle,
                   market_open, srvSub, pc, ecRaw, ecCodes, ecRet, ecI,
                   subCodes, subOk, bgStage, bgCode, bgTargets, bgK,
                   bgSeries, bgIdx, bgResp, grid, gridOf, whole, ecClean,
                   ecEnq, ecSub, rtSub, lock, lkCode, lkVal, lkPrev, snap,
                   committed, bare, numIn, numOut, resolved, locked, sample,
                   bar, symbol, feed, dashboard, holdings, outstanding,
                   dashboard_signature, snapshot, outcome, replay_series,
                   replay_idx, applied, api_calls, api_errors, api, heap,
                   consumer, perf_real, candle_api>>

\* The clock passes 09:00 or 15:30: _is_market_open() answers otherwise.
MarketTurns ==
    /\ market_open' = ~market_open
    /\ UNCHANGED <<stocks, stock_by_code, candles, candle_idx,
                   candle_req_queue, candle_req_set, stress_idx,
                   rt_connected, rt_subscribed, account_no, exec_connected,
                   stop, stress_override, stress_enabled, stress_cycle,
                   srvSub, pc, ecRaw, ecCodes, ecRet, ecI, subCodes, subOk,
                   bgStage, bgCode, bgTargets, bgK, bgSeries, bgIdx, bgResp,
                   grid, gridOf, whole, ecClean, ecEnq, ecSub, rtSub, lock,
                   lkCode, lkVal, lkPrev, snap, committed, bare, numIn,
                   numOut, resolved, locked, sample, bar, symbol, feed,
                   dashboard, holdings, outstanding, dashboard_signature,
                   snapshot, outcome, replay_series, replay_idx, applied,
                   stress_seen, api_calls, api_errors, api, heap, consumer,
                   perf_real, candle_api>>

NotRead == [active |-> FALSE, override |-> "", enabled |-> None, market_open |-> TRUE]

InitStress ==
    /\ \E perf_stress \in Overrides :
          InitAdapterEnv("none", Account, TRUE, FALSE, FALSE, perf_stress)
    /\ market_open \in BOOLEAN
    /\ InitControl(FALSE)
    /\ NumIdle /\ KeysIdle /\ RowIdle /\ DashIdle /\ ReplayIdle /\ ApiIdle /\ HeapIdle /\ PerfRealIdle /\ CandleApiIdle
    /\ stress_seen = NotRead

NextStress ==
    \/ \E v \in {None, True, False} : SetStressEnabled(v)
    \/ ReadStressActive
    \/ MarketTurns

SpecStress == InitStress /\ [][NextStress]_vars

\* ------------------------------------------------------------------- C23

\* Stress is forced on, or off, by PERF_STRESS or by set_stress_enabled.
ForcedOn(r) == r.override = "1" \/ r.enabled = True
ForcedOff(r) == r.override = "0" \/ r.enabled = False

\* C23 as stated: stress_active is true whenever stress is forced on and
\* false whenever it is forced off, whatever the market state; it equals
\* NOT market_open only when neither PERF_STRESS nor set_stress_enabled
\* forces it; after set_stress_enabled(None) it is automatic.
ExplicitSettingsWin ==
    /\ ForcedOn(stress_seen) => stress_seen.active
    /\ ForcedOff(stress_seen) => ~stress_seen.active
    /\ (~ForcedOn(stress_seen) /\ ~ForcedOff(stress_seen))
          => stress_seen.active = ~stress_seen.market_open
    /\ stress_seen.enabled = None
          => stress_seen.active = ~stress_seen.market_open

\* C23 amended: PERF_STRESS "1" or "0" decides first, whatever was set at
\* run time and whatever the market state; without it set_stress_enabled
\* (true/false) decides, whatever the market state; stress_active equals
\* NOT market_open only when neither is in force, and set_stress_enabled(None)
\* returns to automatic only when PERF_STRESS is neither "1" nor "0".
OverrideThenSettingThenMarket ==
    LET r == stress_seen
    IN  /\ r.override = "1" => r.active
        /\ r.override = "0" => ~r.active
        /\ (r.override \notin {"0", "1"} /\ r.enabled = True) => r.active
        /\ (r.override \notin {"0", "1"} /\ r.enabled = False) => ~r.active
        /\ (r.override \notin {"0", "1"} /\ r.enabled = None)
              => r.active = ~r.market_open

\* Stress was switched on at run time under PERF_STRESS=0 and read back as
\* off while the market was closed.
SwitchedOnUnderForcedOff ==
    /\ stress_seen.override = "0" /\ stress_seen.enabled = True
    /\ ~stress_seen.market_open /\ ~stress_seen.active

\* ------------------------------------------------------- the stress cycles
\* The maintenance loop with the stress setting on automatic and the market
\* closed, against the tick feed worker: connects fail or are lost, no
\* message arrives, the status, subscribe and dashboard requests fail or
\* succeed, the candle endpoint gives no rows. No task raises: a request
\* that fails ends inside _api_get, which returns a failure response.

\* _process_candle_fetch_once: the fetch comes back without rows.
BgCandleFetchFails == BgCandleStore /\ UNCHANGED <<candles, candle_idx>>

\* The steps of the maintenance loop up to the stress gate.
StressLoopTasks ==
    \/ BgLogin \/ BgLoginDone \/ BgSubHealth
    \/ BgSubscribe \/ SubSend("bg") \/ SubDone("bg")
    \/ BgDash \/ BgDashResponse \/ BgDashDone
    \/ BgCandlePop \/ BgCandleFetchFails

\* The feed worker by itself.
StressLoopFeed ==
    \/ RtTop \/ RtConnect \/ RtConnectFails
    \/ RtSubscribe \/ SubSend("rt") \/ SubDone("rt")
    \/ RtLost \/ RtUnsub \/ RtBackoff

NextStressLoop ==
    \/ StressLoopFeed
    \/ StressLoopTasks
    \/ BgIterEnd
    \/ BgStressBegin \/ BgStressRead

InitStressLoop ==
    /\ \E e \in BootEnvs : InitAdapter(e.mode, e.acct, e.sub0, e.lost, FALSE)
    /\ market_open = FALSE
    /\ InitThreads(FALSE)

SpecStressLoop == InitStressLoop /\ [][NextStressLoop]_vars

\* The maintenance loop scheduled: a step it can take by itself is taken;
\* the stress timer comes due after finitely many iterations (every
\* iteration sleeps 0.05 s, the interval is fixed), so the loop does not
\* pass the stress gate forever.
FairStressLoop ==
    /\ SpecStressLoop
    /\ WF_vars(StressLoopTasks \/ BgIterEnd \/ BgStressBegin \/ BgStressRead)
    /\ SF_vars(BgStressBegin)

\* ------------------------------------------------------------------- C24

\* C24: with the stress setting on automatic and the market closed the
\* stress cycle counter goes on increasing while the maintenance loop runs:
\* from every value it reaches the next one, also with the tick feed
\* disconnected, no message received and every request failing.
StressCycleKeepsCounting ==
    \A k \in 0..(MaxCycles - 1) : (stress_cycle = k) ~> (stress_cycle = k + 1)

\* The counter at its last value without a session, the feed disconnected,
\* no candle cached.
CountedWhileCutOff ==
    /\ stress_cycle = MaxCycles
    /\ account_no = "" /\ ~rt_connected /\ pc["rt"] = "backoff"
    /\ candles = EmptyMap

\* ------------------------------------------------------- the chart replay
\* generate_candle called again and again while the candle prefetch fills
\* the cache, the market closed; the symbol requests of the quote poll fail
\* or carry no price, so that nothing else writes a price.
QuotePollWithoutPrice ==
    \/ QuoteEnter \/ QuoteCodes \/ QuoteLeave \/ QuoteNext
    \/ (\E v \in {-1, 0} : QuoteResponse(v))
    \/ QuoteEnterRow \/ QuotePrice \/ QuoteLeaveRow

NextChart ==
    \/ QuotePollWithoutPrice
    \/ ProcessCandleFetch
    \/ StSkip
    \/ GenerateCandleSteps

SpecChart == InitLock /\ [][NextChart]_vars

\* ------------------------------------------------------------------- C25

\* The row of the code carries the close of the last bar of its series:
\* generate_candle returned that bar.
LastBarReturned(code) ==
    /\ code \in DOMAIN candles /\ code \in DOMAIN stock_by_code
    /\ Len(candles[code]) > 1
    /\ stock_by_code[code].price = candles[code][Len(candles[code])]

\* C25: with the market closed and a cached series of more than one bar,
\* the generate_candle call that follows the one that returned the last bar
\* rewinds the cursor to max(0, len - 120): it returns the bar at that
\* position, an earlier one, and not the last bar again.
ChartReplayRewinds ==
    [][\A code \in DOMAIN candles :
          (/\ pc[Consumer] = "g_step" /\ pc'[Consumer] = "g_leave"
           /\ lkCode[Consumer] = code
           /\ ~market_open
           /\ LastBarReturned(code))
          => /\ stock_by_code'[code].price =
                   candles[code][ReplayStart(Len(candles[code])) + 1]
             /\ stock_by_code'[code].price # candles[code][Len(candles[code])]]_vars

\* ---------------------------------------------------- the booted universe
\* The read interface on the adapter as __init__ returns it, in every
\* environment of _bootstrap_universe.
NextBoot ==
    \/ GetUniverseGrid
    \/ GenerateCandleSteps

SpecBoot == Init /\ [][NextBoot]_vars

\* ------------------------------------------------------------------- C26

\* C26: after bootstrap the symbol table is never empty: when neither
\* PERF_CODES nor the pre-selected condition produced symbols (the condition
\* index invalid or not found, its search failed or empty, included) it
\* holds the placeholder rows; get_universe_grid returns no empty grid.
UniverseNeverEmpty ==
    /\ stocks # <<>>
    /\ (\A i \in DOMAIN stocks : stocks[i].placeholder)
          => stocks = PlaceholderRows
    /\ grid # NoGrid => grid # <<>>

\* ------------------------------------------------------------------ _api_get
\* One call of _api_get, by attempts: each pass of "for attempt in range(3)"
\* is one step, in which _request_json returns a response or raises.

\* range(3)
MaxAttempts == 3

\* PERF_API_THROTTLE in tenths of a second (default 0.3).
Throttles == {0, 3, 10}

\* What _request_json returns: the decoded body, whatever it says.
ApiResponses == {"success", "failure", "empty", "list"}
\* What it raises: urlopen (refused, timeout, HTTP status), json.loads.
ApiExceptions == {"refused", "timed out", "bad json"}

NoReturn == [kind |-> "none", value |-> "", Success |-> TRUE,
             Message |-> "", Data |-> ""]
Returned(r) == [NoReturn EXCEPT !.kind = "response", !.value = r]
\* {"Success": False, "Message": str(ex), "Data": None}
FailureResult(ex) ==
    [kind |-> "failure", value |-> "", Success |-> FALSE,
     Message |-> ex, Data |-> None]

\* Variant: the same wait after every failure.
FlatBackoff(attempt) == 1

\* time.sleep(API_THROTTLE_SEC * (attempt + 2)), attempt counted from 0
BackoffFactor(attempt) == attempt + 2

\* except Exception as ex: every exception _request_json raises is one.
Caught(ex) == ex \in ApiExceptions

\* One pass of the loop that _request_json ends with a response: the
\* throttle sleep, then the return.
ApiSucceeds(r) ==
    /\ api.ret = NoReturn /\ Len(api.tried) < MaxAttempts
    /\ api_calls' = api_calls + 1
    /\ api' = [api EXCEPT !.tried = Append(@, "ok"),
                          !.slept = Append(@, api.throttle),
                          !.ret = Returned(r)]
    /\ UNCHANGED <<stocks, stock_by_code, candles, candle_idx,
                   candle_req_queue, candle_req_set, stress_idx,
                   rt_connected, rt_subscribed, account_no, exec_connected,
                   stop, stress_override, stress_enabled, stress_cycle,
                   market_open, srvSub, pc, ecRaw, ecCodes, ecRet, ecI,
                   subCodes, subOk, bgStage, bgCode, bgTargets, bgK,
                   bgSeries, bgIdx, bgResp, grid, gridOf, whole, ecClean,
                   ecEnq, ecSub, rtSub, lock, lkCode, lkVal, lkPrev, snap,
                   committed, bare, numIn, numOut, resolved, locked, sample,
                   bar, symbol, feed, dashboard, holdings, outstanding,
                   dashboard_signature, snapshot, outcome, replay_series,
                   replay_idx, applied, stress_seen, api_errors, heap,
                   consumer, perf_real, candle_api>>

\* One pass that _request_json ends by raising: the error is counted; a
\* pass before the last sleeps and goes on, the last returns the failure.
ApiFails(ex) ==
    /\ api.ret = NoReturn /\ Len(api.tried) < MaxAttempts
    /\ api_calls' = api_calls + 1
    /\ LET attempt == Len(api.tried)
       IN  IF Caught(ex)
           THEN /\ api_errors' = api_errors + 1
                /\ api' = IF attempt < MaxAttempts - 1
                          THEN [api EXCEPT
                                  !.tried = Append(@, ex),
                                  !.slept = Append(@, api.throttle * BackoffFactor(attempt))]
                          ELSE [api EXCEPT !.tried = Append(@, ex),
                                           !.ret = FailureResult(ex)]
           ELSE /\ api' = [api EXCEPT !.tried = Append(@, ex),
                                      !.ret = [NoReturn EXCEPT !.kind = "raised"]]
                /\ UNCHANGED api_errors
    /\ UNCHANGED <<stocks, stock_by_code, candles, candle_idx,
                   candle_req_queue, candle_req_set, stress_idx,
                   rt_connected, rt_subscribed, account_no, exec_connected,
                   stop, stress_override, stress_enabled, stress_cycle,
                   market_open, srvSub, pc, ecRaw, ecCodes, ecRet, ecI,
                   subCodes, subOk, bgStage, bgCode, bgTargets, bgK,
                   bgSeries, bgIdx, bgResp, grid, gridOf, whole, ecClean,
                   ecEnq, ecSub, rtSub, lock, lkCode, lkVal, lkPrev, snap,
                   committed, bare, numIn, numOut, resolved, locked, sample,
                   bar, symbol, feed, dashboard, holdings, outstanding,
                   dashboard_signature, snapshot, outcome, replay_series,
                   replay_idx, applied, stress_seen, heap, consumer,
                   perf_real, candle_api>>

InitApi ==
    /\ AdapterOnly
    /\ NumIdle /\ KeysIdle /\ RowIdle /\ DashIdle /\ ReplayIdle /\ PolicyIdle /\ HeapIdle /\ PerfRealIdle /\ CandleApiIdle
    /\ api_calls = 0 /\ api_errors = 0
    /\ \E t \in Throttles :
          api = [throttle |-> t, tried |-> <<>>, slept |-> <<>>, ret |-> NoReturn]

NextApi ==
    \/ \E r \in ApiResponses : ApiSucceeds(r)
    \/ \E ex \in ApiExceptions : ApiFails(ex)

SpecApi == InitApi /\ [][NextApi]_vars

\* ------------------------------------------------------------------- C27

\* C27: a call of _api_get makes at most 3 attempts; only its last attempt
\* can be a successful one, whose response it returns; between failed
\* attempts it sleeps 2 times and then 3 times the throttle delay; after 3
\* failures it returns {Success: false, Message, Data: null} with the
\* message of the last error; it never raises.
ApiGetRetriesThenReports ==
    LET k == Len(api.tried)
        failed == {i \in 1..k : api.tried[i] # "ok"}
    IN  /\ k <= 3 /\ api_calls = k /\ api_errors = Cardinality(failed)
        /\ \A i \in 1..k : api.tried[i] = "ok" => (i = k /\ api.ret.kind = "response")
        /\ \A i \in failed : i < 3 => api.slept[i] = (i + 1) * api.throttle
        /\ Len(api.slept) = (IF k = 3 /\ 3 \in failed THEN 2 ELSE k)
        /\ (Cardinality(failed) = 3) <=>
              (/\ api.ret.kind = "failure" /\ api.ret.Success = FALSE
               /\ api.ret.Message = api.tried[3] /\ api.ret.Data = None)
        /\ api.ret.kind # "raised"
        /\ (k = 3 \/ (k > 0 /\ api.tried[k] = "ok")) <=> api.ret # NoReturn

\* Two failures, 0.6 s and 0.9 s of backoff, then the third attempt failed
\* and the failure result came back.
GaveUpAfterThree ==
    /\ api.throttle = 3 /\ api.slept = <<6, 9>>
    /\ api.ret = FailureResult("timed out")

\* ------------------------------------------------------------ the session
\* The maintenance loop scheduled, its login timer coming due after
\* finitely many iterations (the interval is fixed, 3 s), against the tick
\* feed worker and close().
FairSession ==
    /\ SpecFeed
    /\ WF_vars(MaintenanceTasks \/ BgCandlePop \/ BgCandleStore \/ BgIterEnd)
    /\ SF_vars(BgLogin)

\* ------------------------------------------------------------------- C28

\* A failed dashboard response that says "not logged in" clears the account
\* id.
SessionErrorClearsAccount ==
    [][(pc["bg"] = "dash_resp" /\ bgResp = "not logged in" /\ pc'["bg"] = "pre")
          => account_no' = ""]_vars

\* While the account id is empty the maintenance loop comes to its login
\* retry unless it is stopped; it enters the retry with the id empty only,
\* and only the status response of a retry gives the id a value again.
LoginRetriedUntilLoggedIn ==
    /\ (account_no = "") ~> (pc["bg"] = "login" \/ stop["bg"])
    /\ [][(pc["bg"] # "login" /\ pc'["bg"] = "login") => account_no = ""]_vars
    /\ [][(account_no = "" /\ account_no' # "") => pc["bg"] = "login"]_vars

\* A _subscribe_realtime call of thread t returns.
SubEnds(t) == pc[t] \in {"sub_begin", "sub_done"} /\ pc'[t] = AfterSub(t)

\* C28 as stated: a "not logged in" dashboard failure clears the account id;
\* with the id empty the maintenance loop retries login until a status
\* response reports a logged-in account; while the id is empty no subscribe
\* request is sent, and the subscribed flag is false after any subscription
\* attempt.
SessionErrorStopsSubscribing ==
    /\ SessionErrorClearsAccount
    /\ LoginRetriedUntilLoggedIn
    /\ [][\A t \in {"rt", "bg"} :
            /\ (pc[t] = "sub_send" /\ pc'[t] = "sub_done") => account_no # ""
            /\ (SubEnds(t) /\ account_no = "") => ~rt_subscribed']_vars

\* C28 amended: as stated, but for the subscription: a _subscribe_realtime
\* call that finds the account id empty sends no request and leaves the
\* subscribed flag false; a call that found a session sends its request and
\* sets the flag from the answer also when the id was cleared in between.
SessionErrorStopsNewSubscriptions ==
    /\ SessionErrorClearsAccount
    /\ LoginRetriedUntilLoggedIn
    /\ [][\A t \in {"rt", "bg"} :
            (pc[t] = "sub_begin" /\ pc'[t] # "sub_begin" /\ account_no = "")
               => (pc'[t] = AfterSub(t) /\ ~rt_subscribed')]_vars

\* The session was lost after the feed had subscribed: the maintenance loop
\* is at its login retry, and the feed worker, connected again, made its
\* forced subscription call without a request.
RetryingLoginUnsubscribed ==
    /\ account_no = "" /\ pc["bg"] = "login"
    /\ srvSub # NoSub
    /\ pc["rt"] = "recv" /\ rtSub.made /\ ~rtSub.acct /\ ~rtSub.sent
    /\ ~rt_subscribed

\* ------------------------------------------------ ticks for one symbol
\* _on_realtime as a whole on the row of one symbol, and what
\* get_stock_detail then reports for it. Prices are whole numbers; rate,
\* intensity and volume are JSON numbers counted in hundredths, as the
\* scores are.

\* Most tick messages received.
MaxMessages == 2

RT_VOL_KEYS == <<"cum_volume", "volume", "\\uac70\\ub798\\ub7c9">>
RT_RATE_KEYS == <<"rate", "change_rate">>
RT_DIFF_KEYS == <<"diff", "change">>
RT_INTEN_KEYS == <<"intensity">>

\* (p - op) / op * 100
Percent(p, op) ==
    IF p.nan \/ op.nan THEN NaN ELSE Num(MulDiv(p.v - op.v, 10000, op.v))

\* _on_realtime, the lock section once the row s of the code is found
OnRealtimeRow(s, data) ==
    LET vol   == AbsNum(FirstValid(data, RT_VOL_KEYS))
        rate  == ToNum(FirstValid(data, RT_RATE_KEYS))
        diff  == ToNum(FirstValid(data, RT_DIFF_KEYS))
        inten == AbsNum(FirstValid(data, RT_INTEN_KEYS))
        priced == TickPrices(s, data)
        filled == [priced EXCEPT !.volume_acc = IF Gt(vol, Num(0)) THEN vol ELSE @]
        scored == RecomputeScores(filled, rate, diff, inten)
    IN  [scored EXCEPT !.tick_count = @ + 1]

\* get_stock_detail for a code without a row
NoDetail == [found |-> FALSE, price |-> Num(0), change |-> Num(0), frs |-> Num(0)]

\* get_stock_detail for the row s: price, change and frs of the dict
StockDetail(s) ==
    LET p  == ToNum(RawNum(s.price))
        op == PyMax(Num(1), ToNum(RawNum(s.open_price)))
    IN  [found |-> TRUE, price |-> p, change |-> Percent(p, op),
         frs |-> ToNum(RawNum(s.frs))]

\* The code of the row, and a code without a row.
TickedCode == "A"
StrayCode == "C"

\* The prices, rates and volumes the messages carry.
TickPriceTexts == {RawStr(<<"1", "2", ",", "0", "0", "0">>),
                   RawStr(<<"-", "1", "1", ",", "0", "0", "0">>)}
TickRates == {RawNum(Num(500)), RawNum(Num(-300))}
TickVolumes == {RawNum(Num(40000))}
TickMessages ==
    {d \in UNION {[ks -> TickPriceTexts \cup TickRates \cup TickVolumes] :
                     ks \in SUBSET {"current_price", "rate", "volume"}} :
        /\ "current_price" \in DOMAIN d => d["current_price"] \in TickPriceTexts
        /\ "rate" \in DOMAIN d => d["rate"] \in TickRates
        /\ "volume" \in DOMAIN d => d["volume"] \in TickVolumes}

\* The rows a code has before its first message: what _load_stocks_by_codes
\* built from the last price, or a placeholder.
UntickedRows ==
    {FreshSymbol(base) : base \in {100, 10000, 11000, 12000}} \cup {PlaceholderSymbol}

\* _on_realtime: a message for a code without a row is dropped.
TickArrives ==
    /\ Len(feed.msgs) < MaxMessages
    /\ \E code \in {TickedCode, StrayCode}, data \in TickMessages :
        /\ symbol' = IF code = TickedCode THEN OnRealtimeRow(symbol, data) ELSE symbol
        /\ feed' = [feed EXCEPT !.msgs = Append(@, [code |-> code, data |-> data]),
                                !.detail = NoDetail, !.asked = ""]
    /\ UNCHANGED <<stocks, stock_by_code, candles, candle_idx,
                   candle_req_queue, candle_req_set, stress_idx,
                   rt_connected, rt_subscribed, account_no, exec_connected,
                   stop, stress_override, stress_enabled, stress_cycle,
                   market_open, srvSub, pc, ecRaw, ecCodes, ecRet, ecI,
                   subCodes, subOk, bgStage, bgCode, bgTargets, bgK,
                   bgSeries, bgIdx, bgResp, grid, gridOf, whole, ecClean,
                   ecEnq, ecSub, rtSub, lock, lkCode, lkVal, lkPrev, snap,
                   committed, bare, numIn, numOut, resolved, locked, sample,
                   bar, dashboard, holdings, outstanding,
                   dashboard_signature, snapshot, outcome, replay_series,
                   replay_idx, applied, stress_seen, api_calls, api_errors,
                   api, heap, consumer, perf_real, candle_api>>

\* get_stock_detail(code)
ReadDetail ==
    /\ feed.asked = ""
    /\ \E code \in {TickedCode, StrayCode} :
        feed' = [feed EXCEPT !.asked = code,
                   !.detail = IF code = TickedCode THEN StockDetail(symbol) ELSE NoDetail]
    /\ UNCHANGED <<stocks, stock_by_code, candles, candle_idx,
                   candle_req_queue, candle_req_set, stress_idx,
                   rt_connected, rt_subscribed, account_no, exec_connected,
                   stop, stress_override, stress_enabled, stress_cycle,
                   market_open, srvSub, pc, ecRaw, ecCodes, ecRet, ecI,
                   subCodes, subOk, bgStage, bgCode, bgTargets, bgK,
                   bgSeries, bgIdx, bgResp, grid, gridOf, whole, ecClean,
                   ecEnq, ecSub, rtSub, lock, lkCode, lkVal, lkPrev, snap,
                   committed, bare, numIn, numOut, resolved, locked, sample,
                   bar, symbol, dashboard, holdings, outstanding,
                   dashboard_signature, snapshot, outcome, replay_series,
                   replay_idx, applied, stress_seen, api_calls, api_errors,
                   api, heap, consumer, perf_real, candle_api>>

InitTicks ==
    /\ AdapterOnly
    /\ NumIdle /\ KeysIdle /\ DashIdle /\ LaterIdle
    /\ symbol \in UntickedRows
    /\ feed = [msgs |-> <<>>, frs0 |-> symbol.frs, open0 |-> symbol.open_price,
               detail |-> NoDetail, asked |-> ""]

NextTicks == TickArrives \/ ReadDetail

SpecTicks == InitTicks /\ [][NextTicks]_vars

\* ------------------------------------------------------------------- C29

FirstTick == [current_price |-> RawStr(<<"1", "2", ",", "0", "0", "0">>),
              rate |-> RawNum(Num(500))]
SecondTick == [current_price |-> RawStr(<<"-", "1", "1", ",", "0", "0", "0">>)]

\* The two messages of the scenario came in for the code, in this order.
TwoTicksFed ==
    feed.msgs = <<[code |-> TickedCode, data |-> FirstTick],
                  [code |-> TickedCode, data |-> SecondTick]>>

\* C29: after two tick messages for a code that had none before, the first
\* with current_price "12,000" and rate 5.0, the second with current_price
\* "-11,000", the row of the code has price 11000, get_stock_detail reports
\* that price and the change computed from it and the open price, and frs
\* is strictly greater than before the first message.
TwoTicksEndAtMagnitude ==
    TwoTicksFed =>
        /\ symbol.price = Num(11000)
        /\ Gt(symbol.frs, feed.frs0)
        /\ feed.asked = TickedCode =>
            /\ feed.detail.found
            /\ feed.detail.price = Num(11000)
            /\ feed.detail.change =
                 Num(((11000 - Max(1, feed.open0.v)) * 10000) \div Max(1, feed.open0.v))
            /\ feed.detail.frs = symbol.frs

\* The detail of the code was read after the two messages, for a row
\* loaded with a last price of 10000: price 11000, change 10 %.
DetailAfterTwoTicks ==
    /\ TwoTicksFed
    /\ feed.asked = TickedCode
    /\ feed.open0 = Num(10000)
    /\ feed.detail.price = Num(11000)
    /\ feed.detail.change = Num(1000)
    /\ Gt(feed.detail.frs, feed.frs0)

\* ------------------------------------------------------ the read methods
\* get_universe_grid, get_universe_tree, get_stock_detail, get_positions,
\* get_pending and tick over the objects of the program: every list and
\* dict has an identity, an item is a number, a string, None or a reference
\* to a list or dict. Numbers and strings cannot be changed in place; a
\* list or dict can, by whoever holds a reference to it. Of a row the
\* fields code, name, sector, price, open_price, tes and frs are kept, of a
\* holding code, name, qty, avg_price and price, of an open order order_no,
\* code and qty; the columns left out are numbers and strings computed like
\* the ones kept.

\* Most changes the consumer makes to what one read returned.
MaxTouches == 2

Ref(i) == [kind |-> "ref", id |-> i, s |-> "", n |-> 0]
Text(x) == [kind |-> "str", id |-> "", s |-> x, n |-> 0]
Number(k) == [kind |-> "num", id |-> "", s |-> "", n |-> k]
NoValue == [kind |-> "none", id |-> "", s |-> "", n |-> 0]

\* A list (no keys) and a dict (keys[i] names items[i]).
PyList(items) == [keys |-> <<>>, items |-> items]
PyDict(keys, items) == [keys |-> keys, items |-> items]

Has(o, k) == \E i \in DOMAIN o.keys : o.keys[i] = k
\* d.get(k): None without the key
At(o, k) == IF Has(o, k) THEN o.items[CHOOSE i \in DOMAIN o.keys : o.keys[i] = k]
            ELSE NoValue

\* _to_num on an item: None and what is no number give 0.
ToNumber(v) == IF v.kind = "num" THEN v.n ELSE 0
\* str(x).strip() on an item
ToText(v) == IF v.kind = "str" THEN v.s ELSE ""

RECURSIVE Reach(_, _)
\* The objects reached from the objects S through references.
Reach(h, S) ==
    LET inside == UNION {Range(h[i].items) : i \in S \cap DOMAIN h}
        next == S \cup {v.id : v \in {w \in inside : w.kind = "ref"}}
    IN  IF next = S THEN S ELSE Reach(h, next)

\* self.stocks, self._stock_by_code and self._last_dashboard
AdapterRoots == {"stocks", "by_code", "dashboard"}
Owned(h) == Reach(h, AdapterRoots)

\* What a method builds before it returns: new lists and dicts (made),
\* holding new lists and dicts or items passed on as they are.
Passed(v) == [made |-> FALSE, keys |-> <<>>, items |-> <<>>, val |-> v]
Made(keys, items) == [made |-> TRUE, keys |-> keys, items |-> items, val |-> NoValue]

\* Identities for the objects the read methods make.
NewIds == <<"new_1", "new_2", "new_3">>
FreeIds(h) == SelectSeq(NewIds, LAMBDA i : i \notin DOMAIN h)

\* The objects of what t builds are put into h; value is what is returned.
Store(h, t) ==
    IF ~t.made THEN [heap |-> h, value |-> t.val]
    ELSE LET free == FreeIds(h)
             inner == {i \in DOMAIN t.items : t.items[i].made}
             IdOf(i) == free[1 + Cardinality({j \in inner : j <= i})]
             outer == [keys |-> t.keys,
                       items |-> [i \in DOMAIN t.items |->
                                    IF i \in inner THEN Ref(IdOf(i)) ELSE t.items[i].val]]
             fresh == {free[1]} \cup {IdOf(i) : i \in inner}
             Part(id) == CHOOSE i \in inner : IdOf(i) = id
         IN  [heap |-> [id \in DOMAIN h \cup fresh |->
                          IF id \in DOMAIN h THEN h[id]
                          ELSE IF id = free[1] THEN outer
                          ELSE [keys |-> t.items[Part(id)].keys,
                                items |-> [j \in DOMAIN t.items[Part(id)].items |->
                                             t.items[Part(id)].items[j].val]]],
              value |-> Ref(free[1])]

\* The rows of self.stocks, and sorted(..., key=frs, reverse=True): stable.
RowsOf(h) == [i \in DOMAIN h["stocks"].items |-> h[h["stocks"].items[i].id]]
RECURSIVE ByFrs(_)
ByFrs(rows) ==
    IF rows = <<>> THEN <<>>
    ELSE LET top == CHOOSE i \in DOMAIN rows :
                       /\ \A j \in DOMAIN rows :
                            ToNumber(At(rows[j], "frs")) <= ToNumber(At(rows[i], "frs"))
                       /\ \A j \in 1..(i - 1) :
                            ToNumber(At(rows[j], "frs")) < ToNumber(At(rows[i], "frs"))
         IN  <<rows[top]>> \o ByFrs(SubSeq(rows, 1, top - 1) \o
                                    SubSeq(rows, top + 1, Len(rows)))

\* (p - op) / op * 100 with op = max(1, open_price), in whole per cent
ChangeOf(s) ==
    LET op == Max(1, ToNumber(At(s, "open_price")))
    IN  ((ToNumber(At(s, "price")) - op) * 100) \div op

RankTag(rank) == IF rank <= 5 THEN "ENTRY" ELSE IF rank <= 15 THEN "WATCH" ELSE "IDLE"
Sector(s) == IF Has(s, "sector") THEN At(s, "sector") ELSE Text("UNKNOWN")
PyBool(b) == Text(IF b THEN "True" ELSE "False")

\* get_universe_grid
GridRows(h) ==
    LET ss == ByFrs(RowsOf(h))
    IN  Made(<<>>, [rank \in DOMAIN ss |->
            Made(<<>>, <<Passed(Number(rank)), Passed(At(ss[rank], "code")),
                         Passed(At(ss[rank], "name")),
                         Passed(Number(ToNumber(At(ss[rank], "price")))),
                         Passed(Number(ChangeOf(ss[rank]))),
                         Passed(Number(ToNumber(At(ss[rank], "tes")))),
                         Passed(Number(ToNumber(At(ss[rank], "frs")))),
                         Passed(Text(RankTag(rank))), Passed(Sector(ss[rank]))>>)])

\* get_universe_tree
TreeRows(h) ==
    LET ss == ByFrs(RowsOf(h))
    IN  Made(<<>>, [rank \in DOMAIN ss |->
            Made(<<"code", "name", "change", "tes", "frs", "is_target", "sector">>,
                 <<Passed(At(ss[rank], "code")), Passed(At(ss[rank], "name")),
                   Passed(Number(ChangeOf(ss[rank]))),
                   Passed(Number(ToNumber(At(ss[rank], "tes")))),
                   Passed(Number(ToNumber(At(ss[rank], "frs")))),
                   Passed(PyBool(rank <= 5)), Passed(Sector(ss[rank]))>>)])

\* A method that hands out the row itself.
LiveRow(h, code) == Passed(At(h["by_code"], code))

\* get_stock_detail(code): {} for a code without a row
DetailDict(h, code) ==
    IF ~Has(h["by_code"], code) THEN Made(<<>>, <<>>)
    ELSE LET s == h[At(h["by_code"], code).id]
         IN  Made(<<"code", "name", "price", "change", "tes", "frs">>,
                  <<Passed(At(s, "code")), Passed(At(s, "name")),
                    Passed(Number(ToNumber(At(s, "price")))),
                    Passed(Number(ChangeOf(s))),
                    Passed(Number(ToNumber(At(s, "tes")))),
                    Passed(Number(ToNumber(At(s, "frs"))))>>)

\* self._last_dashboard.get(key) or []
DashList(h, key) ==
    IF Has(h["dashboard"], key) /\ At(h["dashboard"], key).kind = "ref"
    THEN [i \in DOMAIN h[At(h["dashboard"], key).id].items |->
            h[h[At(h["dashboard"], key).id].items[i].id]]
    ELSE <<>>

\* self._stock_by_code.get(code, {}).get("tes", 0)
TesOf(h, code) ==
    IF Has(h["by_code"], code) THEN ToNumber(At(h[At(h["by_code"], code).id], "tes"))
    ELSE 0

\* get_positions
PositionRows(h) ==
    LET hs == DashList(h, "Holdings")
    IN  Made(<<>>, [i \in DOMAIN hs |->
            Made(<<>>, <<Passed(Text(ToText(At(hs[i], "code")))),
                         Passed(Text(ToText(At(hs[i], "name")))),
                         Passed(Number(ToNumber(At(hs[i], "qty")))),
                         Passed(Number(ToNumber(At(hs[i], "avg_price")))),
                         Passed(Number(ToNumber(At(hs[i], "price")))),
                         Passed(Number(TesOf(h, ToText(At(hs[i], "code")))))>>)])

\* get_pending
PendingRows(h) ==
    LET os == DashList(h, "Outstanding")
    IN  Made(<<>>, [i \in DOMAIN os |->
            Made(<<>>, <<Passed(Text(ToText(At(os[i], "order_no")))),
                         Passed(Text(ToText(At(os[i], "code")))),
                         Passed(Number(ToNumber(At(os[i], "qty"))))>>)])

\* tick(): pass
TickNothing(h) == Passed(NoValue)

ReadMethods == {"get_universe_grid", "get_universe_tree", "get_stock_detail",
                "get_positions", "get_pending", "tick"}
ReadCodes == {"A", "C"}

\* What method m, asked for code where it takes one, builds on h.
Built(h, m, code) ==
    CASE m = "get_universe_grid" -> GridRows(h)
      [] m = "get_universe_tree" -> TreeRows(h)
      [] m = "get_stock_detail" -> DetailDict(h, code)
      [] m = "get_positions" -> PositionRows(h)
      [] m = "get_pending" -> PendingRows(h)
      [] m = "tick" -> TickNothing(h)

\* What every read method would build on h.
AnswersOf(h) == [m \in ReadMethods, code \in ReadCodes |-> Built(h, m, code)]

HeldIds == IF consumer.held.kind = "ref" THEN {consumer.held.id} ELSE {}

\* The consumer calls a read method and keeps what it returns in place of
\* what it held; objects nobody refers to any more are gone.
ReadCall ==
    \E m \in ReadMethods, code \in ReadCodes :
        /\ m # "get_stock_detail" => code = "A"
        /\ LET alive == Owned(heap) \cap DOMAIN heap
               r == Store([i \in alive |-> heap[i]], Built(heap, m, code))
           IN  /\ heap' = r.heap
               /\ consumer' = [held |-> r.value, op |-> m, touched |-> 0,
                               answers |-> AnswersOf(r.heap)]
        /\ UNCHANGED <<stocks, stock_by_code, candles, candle_idx,
                       candle_req_queue, candle_req_set, stress_idx,
                       rt_connected, rt_subscribed, account_no,
                       exec_connected, stop, stress_override, stress_enabled,
                       stress_cycle, market_open, srvSub, pc, ecRaw, ecCodes,
                       ecRet, ecI, subCodes, subOk, bgStage, bgCode,
                       bgTargets, bgK, bgSeries, bgIdx, bgResp, grid, gridOf,
                       whole, ecClean, ecEnq, ecSub, rtSub, lock, lkCode,
                       lkVal, lkPrev, snap, committed, bare, numIn, numOut,
                       resolved, locked, sample, bar, symbol, feed,
                       dashboard, holdings, outstanding, dashboard_signature,
                       snapshot, outcome, replay_series, replay_idx, applied,
                       stress_seen, api_calls, api_errors, api, perf_real,
                       candle_api>>

\* What the consumer writes into a list or dict it holds.
Scribble == Text("scribbled")

\* The consumer changes a list or dict it reaches from what it holds: it
\* overwrites an item or empties the object.
ConsumerMutates ==
    /\ consumer.touched < MaxTouches
    /\ \E o \in Reach(heap, HeldIds) \cap DOMAIN heap :
        \/ \E i \in DOMAIN heap[o].items :
               heap' = [heap EXCEPT ![o].items[i] = Scribble]
        \/ heap' = [heap EXCEPT ![o] = [keys |-> <<>>, items |-> <<>>]]
    /\ consumer' = [consumer EXCEPT !.op = "mutate", !.touched = @ + 1]
    /\ UNCHANGED <<stocks, stock_by_code, candles, candle_idx,
                   candle_req_queue, candle_req_set, stress_idx,
                   rt_connected, rt_subscribed, account_no, exec_connected,
                   stop, stress_override, stress_enabled, stress_cycle,
                   market_open, srvSub, pc, ecRaw, ecCodes, ecRet, ecI,
                   subCodes, subOk, bgStage, bgCode, bgTargets, bgK,
                   bgSeries, bgIdx, bgResp, grid, gridOf, whole, ecClean,
                   ecEnq, ecSub, rtSub, lock, lkCode, lkVal, lkPrev, snap,
                   committed, bare, numIn, numOut, resolved, locked, sample,
                   bar, symbol, feed, dashboard, holdings, outstanding,
                   dashboard_signature, snapshot, outcome, replay_series,
                   replay_idx, applied, stress_seen, api_calls, api_errors,
                   api, perf_real, candle_api>>

WithItem(o, k, v) ==
    [o EXCEPT !.items[CHOOSE i \in DOMAIN o.keys : o.keys[i] = k] = v]

TickedPrices == {12}
TickedScores == {2}

\* _on_realtime on the row of a code: price and scores are written in place.
RowTicked ==
    /\ \E code \in {"A", "B"}, p \in TickedPrices, f \in TickedScores :
        LET id == At(heap["by_code"], code).id
            after == [heap EXCEPT ![id] =
                WithItem(WithItem(WithItem(@, "price", Number(p)), "frs", Number(f)),
                         "tes", Number(f))]
        IN  /\ heap' = after
            /\ consumer' = [consumer EXCEPT !.op = "_on_realtime",
                                            !.answers = AnswersOf(after)]
    /\ UNCHANGED <<stocks, stock_by_code, candles, candle_idx,
                   candle_req_queue, candle_req_set, stress_idx,
                   rt_connected, rt_subscribed, account_no, exec_connected,
                   stop, stress_override, stress_enabled, stress_cycle,
                   market_open, srvSub, pc, ecRaw, ecCodes, ecRet, ecI,
                   subCodes, subOk, bgStage, bgCode, bgTargets, bgK,
                   bgSeries, bgIdx, bgResp, grid, gridOf, whole, ecClean,
                   ecEnq, ecSub, rtSub, lock, lkCode, lkVal, lkPrev, snap,
                   committed, bare, numIn, numOut, resolved, locked, sample,
                   bar, symbol, feed, dashboard, holdings, outstanding,
                   dashboard_signature, snapshot, outcome, replay_series,
                   replay_idx, applied, stress_seen, api_calls, api_errors,
                   api, perf_real, candle_api>>

\* A row as _load_stocks_by_codes builds it.
LoadedRow(code, name) ==
    PyDict(<<"code", "name", "sector", "price", "open_price", "tes", "frs">>,
           <<Text(code), Text(name), Text("UNKNOWN"), Number(10), Number(10),
             Number(0), Number(0)>>)

\* The universe of two loaded rows; the dashboard as __init__ leaves it
\* ({}) or as _refresh_dashboard stored it, with one holding and one open
\* order.
LoadedHeap(polled) ==
    LET table == [stocks |-> PyList(<<Ref("row_A"), Ref("row_B")>>),
                  by_code |-> PyDict(<<"A", "B">>, <<Ref("row_A"), Ref("row_B")>>),
                  row_A |-> LoadedRow("A", "Alpha"),
                  row_B |-> LoadedRow("B", "Beta")]
        empty == [dashboard |-> PyDict(<<>>, <<>>)]
        full == [dashboard |-> PyDict(<<"Holdings", "Outstanding">>,
                                      <<Ref("holdings"), Ref("outstanding")>>),
                 holdings |-> PyList(<<Ref("holding_1")>>),
                 holding_1 |-> PyDict(<<"code", "name", "qty", "avg_price", "price">>,
                                      <<Text("A"), Text("Alpha"), Number(3),
                                        Number(10), Number(11)>>),
                 outstanding |-> PyList(<<Ref("order_1")>>),
                 order_1 |-> PyDict(<<"order_no", "code", "qty">>,
                                    <<Text("77"), Text("B"), Number(1)>>)]
        rest == IF polled THEN full ELSE empty
    IN  [id \in DOMAIN table \cup DOMAIN rest |->
            IF id \in DOMAIN table THEN table[id] ELSE rest[id]]

InitSnapshots ==
    /\ AdapterOnly
    /\ NumIdle /\ KeysIdle /\ RowIdle /\ DashIdle
    /\ ReplayIdle /\ PolicyIdle /\ ApiIdle /\ PerfRealIdle /\ CandleApiIdle
    /\ heap \in {LoadedHeap(polled) : polled \in BOOLEAN}
    /\ consumer = [held |-> NoValue, op |-> "", touched |-> 0,
                   answers |-> AnswersOf(heap)]

NextSnapshots == ReadCall \/ ConsumerMutates \/ RowTicked

SpecSnapshots == InitSnapshots /\ [][NextSnapshots]_vars

\* ------------------------------------------------------------------- C30

\* The lists and dicts of the adapter with their items.
AdapterState == [i \in Owned(heap) \cap DOMAIN heap |-> heap[i]]

\* C30: get_universe_grid, get_universe_tree, get_stock_detail,
\* get_positions, get_pending and tick change no list or dict of the
\* adapter; no list or dict reached from what they return is one the adapter
\* reaches from self.stocks, self._stock_by_code or self._last_dashboard;
\* and a change the consumer makes to what it was handed changes neither the
\* adapter's objects nor what any read method builds afterwards: each still
\* builds what it built when the adapter's objects were last written
\* (consumer.answers).
ReadsHandOutSnapshots ==
    /\ [](Reach(heap, HeldIds) \cap Owned(heap) = {})
    /\ [](AnswersOf(heap) = consumer.answers)
    /\ [][consumer'.op \in ReadMethods \cup {"mutate"} =>
            AdapterState' = AdapterState]_vars

\* The consumer emptied a grid it was handed and overwrote a row of it after
\* a tick had changed the symbol's row.
ScribbledOnReturnedGrid ==
    /\ consumer.op = "mutate" /\ consumer.touched = MaxTouches
    /\ consumer.held.kind = "ref"
    /\ \E o \in Reach(heap, HeldIds) \ HeldIds :
          o \in DOMAIN heap /\ heap[o].items = <<>>
    /\ \E o \in Reach(heap, HeldIds) \ HeldIds :
          o \in DOMAIN heap /\ Scribble \in Range(heap[o].items)
    /\ At(heap["row_A"], "price") = Number(12)

\* ------------------------------------------------------------------- C31

\* C31: the price of a row changes only in a tick feed update, a quote poll
\* update or a stress replay update; a consumer call, generate_candle
\* included, leaves it as it is.
PriceFromFeedsOnly ==
    [][symbol'.price # symbol.price => feed'.kind \in {"tick", "quote", "stress"}]_vars

\* ------------------------------------------------------ the prefetch queue
\* generate_candle is one lock section: the call as one step.
GenerateCandle(stock_idx) ==
    /\ stocks # <<>>
    /\ LET s == stocks[Max(0, Min(stock_idx, Len(stocks) - 1)) + 1]
           code == s.code
           known == code \in DOMAIN candles
           ser  == Get(candles, code, <<>>)
           i0   == Get(candle_idx, code, 0)
           wrap == i0 >= Len(ser) /\ ~market_open /\ Len(ser) > 1
           i    == IF i0 >= Len(ser)
                   THEN (IF wrap THEN ReplayStart(Len(ser)) ELSE Len(ser) - 1)
                   ELSE i0
       IN  /\ ~s.placeholder
           /\ IF ~known
              THEN /\ EnqueueCandleFetch(code)
                   /\ candles' = Put(candles, code, <<>>)
                   /\ candle_idx' = Put(candle_idx, code, 0)
                   /\ UNCHANGED <<stocks, stock_by_code>>
              ELSE IF ser = <<>>
              THEN UNCHANGED <<candle_req_queue, candle_req_set, candles, candle_idx,
                               stocks, stock_by_code>>
              ELSE /\ candle_idx' = IF i < Len(ser) - 1 \/ wrap
                                    THEN Put(candle_idx, code, i + 1)
                                    ELSE candle_idx
                   /\ SetRow(code, [s EXCEPT !.price = ser[i + 1]])
                   /\ UNCHANGED <<candle_req_queue, candle_req_set, candles>>
    /\ UNCHANGED <<stress_idx, rt_connected, rt_subscribed, account_no,
                   exec_connected, stop, stress_override, stress_enabled,
                   stress_cycle, market_open, srvSub, pc, ecRaw, ecCodes,
                   ecRet, ecI, subCodes, subOk, bgStage, bgCode, bgTargets,
                   bgK, bgSeries, bgIdx, bgResp, grid, gridOf, whole,
                   ecClean, ecEnq, ecSub, rtSub, lock, lkCode, lkVal, lkPrev,
                   snap, committed, bare, numIn, numOut, resolved, locked,
                   sample, bar, symbol, feed, dashboard, holdings,
                   outstanding, dashboard_signature, snapshot, outcome,
                   replay_series, replay_idx, applied, stress_seen,
                   api_calls, api_errors, api, heap, consumer, perf_real,
                   candle_api>>

\* One execute_condition thread, the candle prefetch of the maintenance
\* loop and the chart panel's generate_candle.
NextQueue ==
    \/ ReloadSteps("r1")
    \/ CandleFetch
    \/ \E i \in StockIdxs : GenerateCandle(i)

SpecQueue == InitCache /\ [][NextQueue]_vars

\* ------------------------------------------------------------------- C32

\* The queue lost its head to the maintenance loop.
Popped ==
    /\ candle_req_queue # <<>>
    /\ candle_req_queue' = Tail(candle_req_queue)
    /\ candle_req_set' = candle_req_set \ {Head(candle_req_queue)}
    /\ pc["bg"] = "pre" /\ pc'["bg"] = "fetch"
    /\ bgCode' = Head(candle_req_queue)

\* A code that was not pending joined the end of the queue.
Enqueued ==
    \E code \in Codes \ candle_req_set :
        /\ candle_req_queue' = Append(candle_req_queue, code)
        /\ candle_req_set' = candle_req_set \cup {code}

\* C32: the queue holds no code twice and the set holds exactly the codes of
\* the queue; a step changes them only by taking the head for the fetch, by
\* adding a code that is not pending at the end, or by the reload's clear
\* (so codes are fetched in the order they joined, and a pending code is not
\* added again); the maintenance loop takes a head only at the start of
\* _process_candle_fetch_once and comes back there only through the end of
\* its iteration.
QueueAndSetConsistent ==
    /\ [](/\ \A i, j \in DOMAIN candle_req_queue :
                candle_req_queue[i] = candle_req_queue[j] => i = j
          /\ candle_req_set = Range(candle_req_queue))
    /\ [][\/ UNCHANGED <<candle_req_queue, candle_req_set>>
          \/ Popped
          \/ Enqueued
          \/ candle_req_queue' = <<>> /\ candle_req_set' = {}]_vars
    /\ [][(pc["bg"] \in {"fetch", "post"} /\ pc'["bg"] = "pre") =>
             (pc["bg"] = "post" /\ bgStage' = 0 /\ bgCode' = "")]_vars

\* generate_candle asked for a code that was still pending: the code has
\* its empty series and is in the queue once, behind the code enqueued
\* before it.
PendingCodeAskedAgain ==
    /\ candle_req_queue = <<"A", "B">>
    /\ "B" \in DOMAIN candles /\ candles["B"] = <<>>
    /\ stock_by_code # <<>> /\ pc["r1"] = "idle"

\* ------------------------------------------------------- the stress gate
\* One iteration of _bg_loop as far as the stress tick goes: mo and st are
\* read where the iteration begins, the tasks of the iteration (login,
\* subscription, dashboard, quote poll, candle fetch) pass, then the gate
\* "if st and not mo" is tested on the values read. Meanwhile the toolbar
\* calls set_stress_enabled and the market opens or closes. (In the
\* specifications above neither changes, so that BgStressBegin tests the
\* setting and the market where the tick starts.)

\* Variant: the gate passes whatever the market state.
GateIgnoresMarket(st, mo) == st

\* if st and not mo
GateOpen(st, mo) == st /\ ~mo

\* mo = self._is_market_open(); st = self.stress_active
BgReadMode ==
    /\ stress_seen.at = "top"
    /\ stress_seen' = [at |-> "tasks", st |-> StressActive, mo |-> market_open]
    /\ UNCHANGED <<stocks, stock_by_code, candles, candle_idx,
                   candle_req_queue, candle_req_set, stress_idx,
                   rt_connected, rt_subscribed, account_no, exec_connected,
                   stop, stress_override, stress_enabled, stress_cycle,
                   market_open, srvSub, pc, ecRaw, ecCodes, ecRet, ecI,
                   subCodes, subOk, bgStage, bgCode, bgTargets, bgK,
                   bgSeries, bgIdx, bgResp, grid, gridOf, whole, ecClean,
                   ecEnq, ecSub, rtSub, lock, lkCode, lkVal, lkPrev, snap,
                   committed, bare, numIn, numOut, resolved, locked, sample,
                   bar, symbol, feed, dashboard, holdings, outstanding,
                   dashboard_signature, snapshot, outcome, replay_series,
                   replay_idx, applied, api_calls, api_errors, api, heap,
                   consumer, perf_real, candle_api>>

\* The gate: _run_stress_tick starts (it counts the cycle) when the gate is
\* open and the stress timer is due; the iteration ends.
BgStressGate ==
    /\ stress_seen.at = "tasks"
    /\ \/ /\ GateOpen(stress_seen.st, stress_seen.mo)
          /\ stress_cycle < MaxCycles
          /\ stress_cycle' = stress_cycle + 1
       \/ UNCHANGED stress_cycle
    /\ stress_seen' = [stress_seen EXCEPT !.at = "top"]
    /\ UNCHANGED <<stocks, stock_by_code, candles, candle_idx,
                   candle_req_queue, candle_req_set, stress_idx,
                   rt_connected, rt_subscribed, account_no, exec_connected,
                   stop, stress_override, stress_enabled, market_open,
                   srvSub, pc, ecRaw, ecCodes, ecRet, ecI, subCodes, subOk,
                   bgStage, bgCode, bgTargets, bgK, bgSeries, bgIdx, bgResp,
                   grid, gridOf, whole, ecClean, ecEnq, ecSub, rtSub, lock,
                   lkCode, lkVal, lkPrev, snap, committed, bare, numIn,
                   numOut, resolved, locked, sample, bar, symbol, feed,
                   dashboard, holdings, outstanding, dashboard_signature,
                   snapshot, outcome, replay_series, replay_idx, applied,
                   api_calls, api_errors, api, heap, consumer, perf_real,
                   candle_api>>

InitGate ==
    /\ \E perf_stress \in Overrides :
          InitAdapterEnv("none", Account, TRUE, FALSE, FALSE, perf_stress)
    /\ market_open \in BOOLEAN
    /\ InitControl(FALSE)
    /\ NumIdle /\ KeysIdle /\ RowIdle /\ DashIdle /\ ReplayIdle /\ ApiIdle /\ HeapIdle /\ PerfRealIdle /\ CandleApiIdle
    /\ stress_seen = [at |-> "top", st |-> FALSE, mo |-> TRUE]

NextGate ==
    \/ BgReadMode
    \/ BgStressGate
    \/ \E v \in {None, True, False} : SetStressEnabled(v)
    \/ MarketTurns

SpecGate == InitGate /\ [][NextGate]_vars

\* ------------------------------------------------------------------- C33

\* C33 as stated: a stress tick starts only while stress mode is active and
\* the market is closed; none starts while the market is open, stress
\* forced on or not, and none while stress is forced off.
StressTickOnlyWhenActiveAndClosed ==
    [][stress_cycle' > stress_cycle => (StressActive /\ ~market_open)]_vars

\* C33 amended: a stress tick starts only in an iteration of the maintenance
\* loop at whose beginning stress mode was active and the market was
\* closed, these being the values the gate tests.
StressTickOnlyWhenReadActiveAndClosed ==
    /\ [][stress_cycle' > stress_cycle => (stress_seen.st /\ ~stress_seen.mo)]_vars
    /\ [][(stress_seen.at = "top" /\ stress_seen'.at = "tasks") =>
            (stress_seen'.st = StressActive /\ stress_seen'.mo = market_open)]_vars

\* A tick started in an iteration during which stress was switched off.
TickAfterSwitchedOff ==
    /\ stress_cycle = 1 /\ stress_seen.at = "top"
    /\ stress_seen.st /\ ~stress_seen.mo
    /\ stress_enabled = False /\ ~StressActive

\* ------------------------------------- the dashboard flag of perf_real.py
\* perf_real.py: _on_execution sets self._dashboard_dirty on an order or
\* balance event; _background_loop tests the flag (or the poll interval),
\* reads it again for the force argument, lets _refresh_dashboard issue its
\* request and take the answer, and then clears the flag. Neither thread
\* holds a lock around the flag. perf_real.owed counts the order and
\* balance events received after the last request of /api/dashboard/refresh
\* began.
MaxEvents == 2

ExecTypes == {"order", "balance", "dashboard", "other"}
DashAnswers == {"filled", "empty", "failed"}

\* if typ in ("order", "balance")
DirtyTypes == {"order", "balance"}

\* path = "/api/dashboard/refresh" if use_refresh else "/api/dashboard"
DashPath(force, has_dashboard) ==
    IF force \/ ~has_dashboard THEN "/api/dashboard/refresh" ELSE "/api/dashboard"

\* _on_execution
OnExecution(typ) ==
    /\ perf_real.exec_recv_count < MaxEvents
    /\ perf_real' =
          [perf_real EXCEPT
             !.exec_recv_count = @ + 1,
             !.last_dashboard = IF typ = "dashboard" THEN TRUE ELSE @,
             !.dashboard_dirty = IF typ \in DirtyTypes THEN TRUE ELSE @,
             !.owed = IF typ \in {"order", "balance"} THEN @ + 1 ELSE @]
    /\ UNCHANGED <<stocks, stock_by_code, candles, candle_idx,
                   candle_req_queue, candle_req_set, stress_idx,
                   rt_connected, rt_subscribed, account_no, exec_connected,
                   stop, stress_override, stress_enabled, stress_cycle,
                   market_open, srvSub, pc, ecRaw, ecCodes, ecRet, ecI,
                   subCodes, subOk, bgStage, bgCode, bgTargets, bgK,
                   bgSeries, bgIdx, bgResp, grid, gridOf, whole, ecClean,
                   ecEnq, ecSub, rtSub, lock, lkCode, lkVal, lkPrev, snap,
                   committed, bare, numIn, numOut, resolved, locked, sample,
                   bar, symbol, feed, dashboard, holdings, outstanding,
                   dashboard_signature, snapshot, outcome, replay_series,
                   replay_idx, applied, stress_seen, api_calls, api_errors,
                   api, heap, consumer, candle_api>>

\* if self._dashboard_dirty or (now - self._last_dashboard_poll > 5.0)
BgDirtyTest ==
    /\ perf_real.at = "test"
    /\ \E due \in BOOLEAN :
          perf_real' = [perf_real EXCEPT
             !.at = IF perf_real.dashboard_dirty \/ due THEN "argument" ELSE "test"]
    /\ UNCHANGED <<stocks, stock_by_code, candles, candle_idx,
                   candle_req_queue, candle_req_set, stress_idx,
                   rt_connected, rt_subscribed, account_no, exec_connected,
                   stop, stress_override, stress_enabled, stress_cycle,
                   market_open, srvSub, pc, ecRaw, ecCodes, ecRet, ecI,
                   subCodes, subOk, bgStage, bgCode, bgTargets, bgK,
                   bgSeries, bgIdx, bgResp, grid, gridOf, whole, ecClean,
                   ecEnq, ecSub, rtSub, lock, lkCode, lkVal, lkPrev, snap,
                   committed, bare, numIn, numOut, resolved, locked, sample,
                   bar, symbol, feed, dashboard, holdings, outstanding,
                   dashboard_signature, snapshot, outcome, replay_series,
                   replay_idx, applied, stress_seen, api_calls, api_errors,
                   api, heap, consumer, candle_api>>

\* force=self._dashboard_dirty
BgDirtyArgument ==
    /\ perf_real.at = "argument"
    /\ perf_real' = [perf_real EXCEPT !.at = "request", !.force = perf_real.dashboard_dirty]
    /\ UNCHANGED <<stocks, stock_by_code, candles, candle_idx,
                   candle_req_queue, candle_req_set, stress_idx,
                   rt_connected, rt_subscribed, account_no, exec_connected,
                   stop, stress_override, stress_enabled, stress_cycle,
                   market_open, srvSub, pc, ecRaw, ecCodes, ecRet, ecI,
                   subCodes, subOk, bgStage, bgCode, bgTargets, bgK,
                   bgSeries, bgIdx, bgResp, grid, gridOf, whole, ecClean,
                   ecEnq, ecSub, rtSub, lock, lkCode, lkVal, lkPrev, snap,
                   committed, bare, numIn, numOut, resolved, locked, sample,
                   bar, symbol, feed, dashboard, holdings, outstanding,
                   dashboard_signature, snapshot, outcome, replay_series,
                   replay_idx, applied, stress_seen, api_calls, api_errors,
                   api, heap, consumer, candle_api>>

\* _refresh_dashboard up to the moment _api_get sends the request
BgDirtyRequest ==
    /\ perf_real.at = "request"
    /\ LET path == DashPath(perf_real.force, perf_real.last_dashboard)
       IN  perf_real' = [perf_real EXCEPT
              !.at = "answer", !.path = path,
              !.owed = IF path = "/api/dashboard/refresh" THEN 0 ELSE @]
    /\ UNCHANGED <<stocks, stock_by_code, candles, candle_idx,
                   candle_req_queue, candle_req_set, stress_idx,
                   rt_connected, rt_subscribed, account_no, exec_connected,
                   stop, stress_override, stress_enabled, stress_cycle,
                   market_open, srvSub, pc, ecRaw, ecCodes, ecRet, ecI,
                   subCodes, subOk, bgStage, bgCode, bgTargets, bgK,
                   bgSeries, bgIdx, bgResp, grid, gridOf, whole, ecClean,
                   ecEnq, ecSub, rtSub, lock, lkCode, lkVal, lkPrev, snap,
                   committed, bare, numIn, numOut, resolved, locked, sample,
                   bar, symbol, feed, dashboard, holdings, outstanding,
                   dashboard_signature, snapshot, outcome, replay_series,
                   replay_idx, applied, stress_seen, api_calls, api_errors,
                   api, heap, consumer, candle_api>>

\* _refresh_dashboard from the answer on
BgDirtyAnswer ==
    /\ perf_real.at = "answer"
    /\ \E answer \in DashAnswers :
          perf_real' = [perf_real EXCEPT
             !.at = "clear",
             !.last_dashboard = CASE answer = "filled" -> TRUE
                                  [] answer = "empty" -> FALSE
                                  [] OTHER -> @]
    /\ UNCHANGED <<stocks, stock_by_code, candles, candle_idx,
                   candle_req_queue, candle_req_set, stress_idx,
                   rt_connected, rt_subscribed, account_no, exec_connected,
                   stop, stress_override, stress_enabled, stress_cycle,
                   market_open, srvSub, pc, ecRaw, ecCodes, ecRet, ecI,
                   subCodes, subOk, bgStage, bgCode, bgTargets, bgK,
                   bgSeries, bgIdx, bgResp, grid, gridOf, whole, ecClean,
                   ecEnq, ecSub, rtSub, lock, lkCode, lkVal, lkPrev, snap,
                   committed, bare, numIn, numOut, resolved, locked, sample,
                   bar, symbol, feed, dashboard, holdings, outstanding,
                   dashboard_signature, snapshot, outcome, replay_series,
                   replay_idx, applied, stress_seen, api_calls, api_errors,
                   api, heap, consumer, candle_api>>

\* self._dashboard_dirty = False
BgDirtyClear ==
    /\ perf_real.at = "clear"
    /\ perf_real' = [perf_real EXCEPT !.at = "test", !.dashboard_dirty = FALSE]
    /\ UNCHANGED <<stocks, stock_by_code, candles, candle_idx,
                   candle_req_queue, candle_req_set, stress_idx,
                   rt_connected, rt_subscribed, account_no, exec_connected,
                   stop, stress_override, stress_enabled, stress_cycle,
                   market_open, srvSub, pc, ecRaw, ecCodes, ecRet, ecI,
                   subCodes, subOk, bgStage, bgCode, bgTargets, bgK,
                   bgSeries, bgIdx, bgResp, grid, gridOf, whole, ecClean,
                   ecEnq, ecSub, rtSub, lock, lkCode, lkVal, lkPrev, snap,
                   committed, bare, numIn, numOut, resolved, locked, sample,
                   bar, symbol, feed, dashboard, holdings, outstanding,
                   dashboard_signature, snapshot, outcome, replay_series,
                   replay_idx, applied, stress_seen, api_calls, api_errors,
                   api, heap, consumer, candle_api>>

BackgroundLoop ==
    BgDirtyTest \/ BgDirtyArgument \/ BgDirtyRequest \/ BgDirtyAnswer \/ BgDirtyClear

InitDirty ==
    /\ AdapterOnly
    /\ NumIdle /\ KeysIdle /\ RowIdle /\ DashIdle
    /\ ReplayIdle /\ PolicyIdle /\ ApiIdle /\ HeapIdle /\ CandleApiIdle
    /\ perf_real = [dashboard_dirty |-> FALSE, last_dashboard |-> FALSE,
                    exec_recv_count |-> 0, at |-> "test", force |-> FALSE,
                    path |-> "", owed |-> 0]

NextDirty ==
    \/ \E typ \in ExecTypes : OnExecution(typ)
    \/ BgDirtyTest
    \/ BgDirtyArgument
    \/ BgDirtyRequest
    \/ BgDirtyAnswer
    \/ BgDirtyClear

SpecDirty == InitDirty /\ [][NextDirty]_vars

\* The maintenance thread keeps running: its loop ends only when close()
\* sets the stop event.
FairDirty == SpecDirty /\ WF_vars(BackgroundLoop)

\* ------------------------------------------------------------------- C34

\* C34: every order or balance event is followed by a request of
\* /api/dashboard/refresh that starts after the event was received: no
\* event that arrives while a refresh is under way is lost.
EventLeadsToForcedRefresh == (perf_real.owed > 0) ~> (perf_real.owed = 0)

\* ------------------------------------------------------------------- C35

\* The scores of a row.
ScoresOf(s) == <<s.tes, s.hms, s.bms, s.sls, s.ucs, s.frs, s.axes>>

\* C35: the scores recompute_scores leaves are computed from the rate the
\* caller supplied, a supplied 0 included, and not from the difference of
\* price and open: they are the scores the same call leaves on a row whose
\* price is its open price (recompute_scores writes the scores only, so
\* that the row after the call still has the price, open price, volume and
\* tick count the call read).
ScoresFromSuppliedRate ==
    feed.done =>
        ScoresOf(symbol) =
            ScoresOf(RecomputeScores([symbol EXCEPT !.price = symbol.open_price],
                                     feed.args.rate, feed.args.diff, feed.args.intensity))

\* ------------------------------------------------------------------- C36

\* C36: the symbol list and the code index describe the same set of
\* symbols in every state, after the placeholder step of the bootstrap and
\* between the two lock sections of a reload included, and every key of the
\* index maps to the row of that code in the list.
IndexMatchesStocks ==
    /\ DOMAIN stock_by_code = Range(CodesOf(stocks))
    /\ \A c \in DOMAIN stock_by_code :
          \E i \in DOMAIN stocks : stocks[i].code = c /\ stock_by_code[c] = stocks[i]

\* ------------------------------------------------------- the backfill
\* The candle prefetch against an endpoint that answers no rows (the
\* request failed, or the payload held no valid bar) until it recovers, and
\* the chart panel calling generate_candle.

\* The fetch answers as the endpoint is: no rows while it is down, at least
\* one bar once it is up.
BgCandleAnswer ==
    /\ BgCandleStore
    /\ candle_api = "down" => candles' = candles
    /\ (candle_api = "up" /\ ~IsDummyCode(bgCode)) => Get(candles', bgCode, <<>>) # <<>>

\* From now on the endpoint answers with bars.
EndpointRecovers ==
    /\ candle_api = "down"
    /\ candle_api' = "up"
    /\ UNCHANGED <<stocks, stock_by_code, candles, candle_idx,
                   candle_req_queue, candle_req_set, stress_idx,
                   rt_connected, rt_subscribed, account_no, exec_connected,
                   stop, stress_override, stress_enabled, stress_cycle,
                   market_open, srvSub, pc, ecRaw, ecCodes, ecRet, ecI,
                   subCodes, subOk, bgStage, bgCode, bgTargets, bgK,
                   bgSeries, bgIdx, bgResp, grid, gridOf, whole, ecClean,
                   ecEnq, ecSub, rtSub, lock, lkCode, lkVal, lkPrev, snap,
                   committed, bare, numIn, numOut, resolved, locked, sample,
                   bar, symbol, feed, dashboard, holdings, outstanding,
                   dashboard_signature, snapshot, outcome, replay_series,
                   replay_idx, applied, stress_seen, api_calls, api_errors,
                   api, heap, consumer, perf_real>>

InitHeal ==
    /\ InitAdapter("loaded", Account, TRUE, FALSE, FALSE)
    /\ InitControl(FALSE)
    /\ NumIdle /\ KeysIdle /\ RowIdle /\ DashIdle
    /\ ReplayIdle /\ PolicyIdle /\ ApiIdle /\ HeapIdle /\ PerfRealIdle
    /\ market_open = FALSE
    /\ candle_api = "down"

Backfill == BgCandlePop \/ BgCandleAnswer \/ BgIterEnd

NextHeal ==
    \/ BgCandlePop
    \/ BgCandleAnswer
    \/ BgIterEnd
    \/ EndpointRecovers
    \/ \E i \in StockIdxs : GenerateCandle(i)

SpecHeal == InitHeal /\ [][NextHeal]_vars

\* The maintenance loop keeps running, the endpoint recovers, and the chart
\* panel keeps asking for the candles of every row.
FairHeal ==
    /\ SpecHeal
    /\ WF_vars(Backfill)
    /\ WF_vars(EndpointRecovers)
    /\ \A i \in StockIdxs : WF_vars(GenerateCandle(i))

\* ------------------------------------------------------------------- C37

\* C37: once the endpoint answers with at least one valid bar, every symbol
\* of the universe eventually has a non-empty cached series, also after a
\* fetch that failed or returned no rows and after a generate_candle call
\* made before any fetch succeeded.
BackfillHeals ==
    \A i \in DOMAIN BootCodes :
        <>(Get(candles, BootCodes[i], <<>>) # <<>>)

\* ------------------------------------------------------------------- C38

\* C38: once close() has sent its unsubscribe request, no subscribe request
\* is sent: not by the maintenance loop finishing its iteration, not by
\* the tick feed worker completing a connect.
NoSubscribeAfterUnsubscribe ==
    [][pc[Closer] = "closed" =>
          \A t \in {"bg", "rt"} : ~(pc[t] = "sub_send" /\ pc'[t] = "sub_done")]_vars

\* ------------------------------------------------------------------- C39

\* C39: after a reload that subscribed (tick feed connected, session active)
\* has returned and no _subscribe_realtime call is under way, the server's
\* subscription is the codes of the new universe whenever the subscribed
\* flag is true, whatever subscription call of a worker read the codes
\* before the reload: the last request the server took is not one with the
\* old codes.
ReloadSubscriptionWins ==
    (/\ pc[Closer] = "idle"
     /\ \A t \in Subscribers : pc[t] \notin {"sub_begin", "sub_send", "sub_done"}
     /\ \A r \in Reloaders : pc[r] = "idle"
     /\ ecSub["r1"].call.made /\ ecSub["r1"].call.sent
     /\ rt_subscribed)
        => srvSub = CodesOf(stocks)

\* ------------------------------------------------------ ticks for no row
\* _on_realtime as one step (the test of the code, then one lock section),
\* against a reload. feed holds self._rt_recv_count and
\* self._rt_last_recv_ts, the clock time.time() reads, and the code of
\* the message handled last.
MaxDelivered == 3

\* The code field of a tick message: missing or empty, blank, a code of the
\* universe with and without a row, a placeholder code.
TickCodeFields == {"", Blank, "A", "C", "000001"}

\* str(evt.get("code", "")).strip()
StripCode(raw) == IF raw = Blank THEN "" ELSE raw

\* self._stock_by_code.get(code) for a code without a row: None
NoRow == [code |-> "", placeholder |-> FALSE, price |-> 0, tick_count |-> 0, frs |-> 0]

\* if not s: return
IsRow(s) == s # NoRow

\* _on_realtime(evt), the message naming the code field raw and the price v (0: none)
DeliverTick(raw, v) ==
    /\ feed.delivered < MaxDelivered
    /\ LET code == StripCode(raw)
           s == Get(stock_by_code, code, NoRow)
           found == code # "" /\ IsRow(s)
           p == IF v > 0 THEN v ELSE s.price
       IN  /\ IF found
              THEN SetRow(code, [s EXCEPT !.price = p,
                                          !.frs = Score(p, s.tick_count),
                                          !.tick_count = @ + 1])
              ELSE UNCHANGED <<stocks, stock_by_code>>
           /\ feed' = [delivered |-> feed.delivered + 1,
                       code |-> raw,
                       clock |-> feed.clock + 1,
                       rt_recv_count |-> IF found THEN feed.rt_recv_count + 1
                                         ELSE feed.rt_recv_count,
                       rt_last_recv_ts |-> IF found THEN feed.clock + 1
                                           ELSE feed.rt_last_recv_ts]
    /\ UNCHANGED <<candles, candle_idx, candle_req_queue, candle_req_set,
                   stress_idx, rt_connected, rt_subscribed, account_no,
                   exec_connected, stop, stress_override, stress_enabled,
                   stress_cycle, market_open, srvSub, pc, ecRaw, ecCodes,
                   ecRet, ecI, subCodes, subOk, bgStage, bgCode, bgTargets,
                   bgK, bgSeries, bgIdx, bgResp, grid, gridOf, whole,
                   ecClean, ecEnq, ecSub, rtSub, lock, lkCode, lkVal, lkPrev,
                   snap, committed, bare, numIn, numOut, resolved, locked,
                   sample, bar, symbol, dashboard, holdings, outstanding,
                   dashboard_signature, snapshot, outcome, replay_series,
                   replay_idx, applied, stress_seen, api_calls, api_errors,
                   api, heap, consumer, perf_real, candle_api>>

InitDrop ==
    /\ \E mode \in BootModes : InitAdapter(mode, Account, TRUE, FALSE, FALSE)
    /\ market_open = TRUE
    /\ InitControl(FALSE)
    /\ NumIdle /\ KeysIdle /\ DashIdle /\ LaterIdle
    /\ symbol = <<>>
    /\ feed = [delivered |-> 0, code |-> "", clock |-> 0,
               rt_recv_count |-> 0, rt_last_recv_ts |-> 0]

NextDrop ==
    \/ \E raw \in TickCodeFields, v \in {0} \cup Prices : DeliverTick(raw, v)
    \/ ReloadSteps("r1")

SpecDrop == InitDrop /\ [][NextDrop]_vars

\* A message whose code is empty or has no entry in the index is dropped:
\* list, index, counter and time stamp stay as they are.
UnindexedTickDropped ==
    [][(/\ feed'.delivered = feed.delivered + 1
        /\ \/ StripCode(feed'.code) = ""
           \/ StripCode(feed'.code) \notin DOMAIN stock_by_code)
       => /\ stocks' = stocks
          /\ stock_by_code' = stock_by_code
          /\ feed'.rt_recv_count = feed.rt_recv_count
          /\ feed'.rt_last_recv_ts = feed.rt_last_recv_ts]_vars

\* ------------------------------------------------------------------- C40

\* C40: a tick message whose code is empty, or is the code of no row of
\* the current universe (the symbol list), is dropped: the symbol list and
\* the index are as before (no row is made, no field of any row changes),
\* and so are the received counter and the time of the last message.
StrayTickDropped ==
    [][(/\ feed'.delivered = feed.delivered + 1
        /\ \/ StripCode(feed'.code) = ""
           \/ StripCode(feed'.code) \notin Range(CodesOf(stocks)))
       => /\ stocks' = stocks
          /\ stock_by_code' = stock_by_code
          /\ feed'.rt_recv_count = feed.rt_recv_count
          /\ feed'.rt_last_recv_ts = feed.rt_last_recv_ts]_vars

====
